---- MODULE Spec2Model ----
(***************************************************************************)
(* Model of the workflow execution engine (app/services/executor.py) and   *)
(* of the cron-driven trigger loop (app/services/scheduler.py).            *)
(*                                                                         *)
(* Spec      : one run of WorkflowEngine.execute_workflow over a workflow  *)
(*             definition drawn from Definitions.                          *)
(* FairSpec  : Spec with every started step finishing and the driver       *)
(*             resumed whenever it can continue.                           *)
(* SchedSpec : the Scheduler's periodic scan against a clock.              *)
(* RunsSpec  : one Execution row handed to two engine runs, with the       *)
(*             cancel endpoint.                                            *)
(* LogSpec   : one engine run whose log broadcasts may fail.               *)
(* StatusSpec: one engine run whose final status write may fail.           *)
(* ReturnSpec: one engine run whose workflow may be missing or empty.       *)
(* LifeSpec  : start() and stop() of one Scheduler and its loop task.      *)
(* OverlapSpec: the same with start() called while a stop() is waiting.    *)
(* LateSpec  : scans a few seconds apart around the end of a due window.   *)
(* TriggerSpec: the creation of Executions by scans and on-demand triggers *)
(*             and the background task of a trigger.                       *)
(* ViewerSpec: the WebSocketManager's viewers of one run and the broadcast *)
(*             of the run's completion (app/websockets/manager.py).        *)
(***************************************************************************)
EXTENDS Integers, Sequences, FiniteSets, TLC

VARIABLES
    \* ---- engine (one run of WorkflowEngine.execute_workflow) ----
    pc,               \* position of the run's driver
    definition,       \* workflow.workflow_definition (steps, connections)
    dependency_graph, \* result of _build_dependency_graph
    completed_steps,  \* set, executor.py:284
    skipped_steps,    \* set, executor.py:288
    step_outputs,     \* map step id -> output, executor.py:285
    steps_results,    \* context["steps_results"]
    branches_taken,   \* context["branches_taken"]
    ready_steps,      \* list returned by get_next_steps for the current tick
    running,          \* steps of the current tick whose _execute_step has not finished
    exec_results,     \* what each finished _execute_step of the tick produced
    success,          \* value returned by _execute_workflow_graph (None before)
    ticks,            \* history: the ready list dispatched by each tick, in order
    \* ---- scheduler ----
    now,              \* wall clock, seconds
    executions,       \* WorkflowExecution rows
    scans,            \* history: the times at which a scan ran
    background_tasks, \* the tasks start_execution handed to BackgroundTasks
    loaded_schedules, \* the WorkflowSchedule objects of the last scan's session, after it
    \* ---- one Execution row and the engine runs that drive it ----
    status,           \* WorkflowExecution.status as stored
    workers,          \* per worker: the state of its run of execute_workflow
    execution_logs,   \* ExecutionLog rows of the Execution
    undelivered,      \* history: log entries whose broadcast failed
    cancel_response,  \* history: HTTP status of the last cancel request
    error_message,    \* WorkflowExecution.error_message as stored
    run_completion,   \* history: the success flags passed to broadcast_run_completion
    \* ---- the WebSocketManager's registry for one run_id, and its viewers ----
    active_connections, \* active_connections[run_id]; empty: run_id is not a key
    client,           \* per viewer: "none" before it connects, then "open" or "gone"
    completion,       \* the call of broadcast_run_completion: position, snapshot, index
    sent,             \* history: viewers that were sent the run_completed message
    closed,           \* history: viewers the manager closed with code 1000
    removed,          \* history: viewers that were in the entry when it was deleted
    \* ---- one Scheduler object and its lifecycle ----
    scheduler,        \* the fields is_running, stop_event, task of the Scheduler
    loop_tasks,       \* the tasks created for _run_scheduler_loop, in order
    stop_call,        \* the stop() call that is waiting for the loop, if any
    scans_at_stop     \* history: number of scans when the last stop() returned

engineVars == <<pc, definition, dependency_graph, completed_steps, skipped_steps,
                step_outputs, steps_results, branches_taken, ready_steps,
                running, exec_results, success, ticks>>
schedVars == <<now, executions, scans, background_tasks, loaded_schedules>>
viewVars == <<active_connections, client, completion, sent, closed, removed>>
runVars == <<status, workers, execution_logs, undelivered, cancel_response,
             error_message, run_completion,
             active_connections, client, completion, sent, closed, removed>>
lifeVars == <<scheduler, loop_tasks, stop_call, scans_at_stop>>
vars == <<pc, definition, dependency_graph, completed_steps, skipped_steps,
          step_outputs, steps_results, branches_taken, ready_steps,
          running, exec_results, success, ticks, now, executions, scans,
          background_tasks, loaded_schedules,
          status, workers, execution_logs, undelivered, cancel_response,
          error_message, run_completion,
          active_connections, client, completion, sent, closed, removed,
          scheduler, loop_tasks, stop_call, scans_at_stop>>

\* Python's None, also used for a key that is absent from a dict.
None == "None"

(***************************************************************************)
(* Small helpers on sequences and functions.                               *)
(***************************************************************************)
Range(s) == {s[i] : i \in 1..Len(s)}

EmptyMap == [x \in {} |-> None]

\* dict.get(key, default)
Get(d, k, default) == IF k \in DOMAIN d THEN d[k] ELSE default

\* d[k] = v on a dict
Put(d, k, v) == [x \in (DOMAIN d) \cup {k} |-> IF x = k THEN v ELSE d[x]]

(***************************************************************************)
(* Workflow definitions the run is checked on.                             *)
(***************************************************************************)
\* Most connections a generated definition has.
MaxConns == 2

\* Step ids of the generated definitions, in list order.
StepIds == <<"A", "B", "C">>

\* Condition labels that appear on connections ("*" is the wildcard).
ConditionLabels == {"success", "error", "*"}

\* Values of config["default"] of a branch step (with no rules, the branch it
\* selects).
BranchDefaults == {"success", "error"}

\* Step types of the generated definitions: two with a handler, one without.
StepTypes == {"http", "branch", "email"}

Step(id, type, critical, default) ==
    [id |-> id, type |-> type, critical |-> critical,
     config |-> [default |-> default]]

Connection(from, to, condition) == [from |-> from, to |-> to, condition |-> condition]

\* All steps plain http steps, except that at most one step is critical, of
\* another type, or both; a branch step has no rules and selects its default.
StepLists ==
    LET plain == [i \in 1..Len(StepIds) |->
                     Step(StepIds[i], "http", FALSE, "default")]
        DefaultsOf(ty) == IF ty = "branch" THEN BranchDefaults ELSE {"default"}
    IN  {plain} \cup
        UNION { { [plain EXCEPT ![i] = Step(StepIds[i], ty, cr, d)] :
                    i \in 1..Len(StepIds), cr \in BOOLEAN, d \in DefaultsOf(ty) } :
                ty \in StepTypes }

\* Forward connections only (from earlier to later in list order): acyclic,
\* every referenced id exists.
CandidateConnections ==
    { Connection(StepIds[p[1]], StepIds[p[2]], c) :
        p \in {q \in (1..Len(StepIds)) \X (1..Len(StepIds)) : q[1] < q[2]},
        c \in ConditionLabels \cup {None} }

\* A set of connections as a list, in a fixed order.
RECURSIVE SetToSeq(_)
SetToSeq(S) ==
    IF S = {} THEN <<>>
    ELSE LET x == CHOOSE y \in S : TRUE IN <<x>> \o SetToSeq(S \ {x})

GeneratedDefinitions ==
    { [steps |-> sl, connections |-> SetToSeq(cs)] :
        sl \in StepLists,
        cs \in {c \in SUBSET CandidateConnections : Cardinality(c) <= MaxConns} }

\* The end-to-end scenario: A -success-> B, A -error-> C, B -> D, C -> D.
DiamondDefinition ==
    [steps |-> << Step("A", "http", FALSE, "default"),
                  Step("B", "http", FALSE, "default"),
                  Step("C", "http", FALSE, "default"),
                  Step("D", "http", FALSE, "default") >>,
     connections |-> << Connection("A", "B", "success"),
                        Connection("A", "C", "error"),
                        Connection("B", "D", None),
                        Connection("C", "D", None) >>]

\* C is reached from A by a conditional and by an unconditional connection,
\* and from B by a conditional one.
OverrideDefinition ==
    [steps |-> << Step("A", "http", FALSE, "default"),
                  Step("B", "http", FALSE, "default"),
                  Step("C", "http", FALSE, "default") >>,
     connections |-> << Connection("A", "C", "success"),
                        Connection("A", "C", None),
                        Connection("B", "C", "error") >>]

\* A definition with no steps at all.
EmptyDefinition == [steps |-> <<>>, connections |-> <<>>]

\* the generated steps, none of them special
PlainSteps == [i \in 1..Len(StepIds) |-> Step(StepIds[i], "http", FALSE, "default")]

\* Connections that lead back (to the same or to an earlier step), of which
\* cycles are made ...
BackConnections ==
    { Connection(StepIds[p[1]], StepIds[p[2]], None) :
        p \in {q \in (1..Len(StepIds)) \X (1..Len(StepIds)) : q[1] >= q[2]} }

\* ... and connections one end of which is not the id of any step.
MissingStepId == "X"

DanglingConnections ==
    { Connection(StepIds[i], MissingStepId, None) : i \in 1..Len(StepIds) } \cup
    { Connection(MissingStepId, StepIds[i], None) : i \in 1..Len(StepIds) }

\* Definitions that the engine is handed although a connection leads back or
\* dangles: a workflow definition is stored as it is sent.
UnvalidatedDefinitions ==
    { [steps |-> PlainSteps, connections |-> SetToSeq(cs)] :
        cs \in {c \in SUBSET (CandidateConnections \cup BackConnections
                                  \cup DanglingConnections) :
                    /\ Cardinality(c) <= MaxConns
                    /\ c \cap (BackConnections \cup DanglingConnections) # {}} }

\* A step marked critical inside its config map (and not at its top level).
StepWithConfigCritical(id, type) ==
    [id |-> id, type |-> type, critical |-> FALSE,
     config |-> [default |-> "default", critical |-> TRUE]]

ConfigCriticalDefinitions ==
    { [steps |-> [PlainSteps EXCEPT ![i] = StepWithConfigCritical(StepIds[i], ty)],
       connections |-> SetToSeq(cs)] :
        i \in 1..Len(StepIds), ty \in {"http", "email"},
        cs \in {c \in SUBSET CandidateConnections : Cardinality(c) <= MaxConns} }

Definitions ==
    GeneratedDefinitions
        \cup {DiamondDefinition, OverrideDefinition, EmptyDefinition}
        \cup UnvalidatedDefinitions \cup ConfigCriticalDefinitions

(***************************************************************************)
(* Graph Builder: WorkflowEngine._build_dependency_graph.                  *)
(***************************************************************************)
\* ids of the steps, in list order (the insertion order of the graph dict)
GraphOrder(steps) == [i \in 1..Len(steps) |-> steps[i].id]

\* the step of the list that has this id
StepOf(steps, id) == steps[CHOOSE i \in 1..Len(steps) : steps[i].id = id]

\* (variant: no edge is assumed when there are no connections)
LegacyConnectionsNone(steps) == <<>>

\* the edges step i -> step i+1 assumed when there are no connections
LegacyConnections(steps) ==
    [i \in 1..(IF Len(steps) = 0 THEN 0 ELSE Len(steps) - 1) |->
        Connection(steps[i].id, steps[i + 1].id, None)]

_build_dependency_graph(steps, connections) ==
    LET ids   == Range(GraphOrder(steps))
        edges == IF connections = <<>> THEN LegacyConnections(steps)
                 ELSE connections
        into(s)   == SelectSeq(edges, LAMBDA c : c.to = s)
        plain(s)  == SelectSeq(edges, LAMBDA c : c.from = s /\ c.condition = None)
        guarded(s) == SelectSeq(edges, LAMBDA c : c.from = s /\ c.condition # None)
    IN  [s \in ids |->
            [predecessors |-> [i \in 1..Len(into(s)) |-> into(s)[i].from],
             successors   |-> [i \in 1..Len(plain(s)) |-> plain(s)[i].to],
             conditional_successors |->
                 [i \in 1..Len(guarded(s)) |->
                     [step_id |-> guarded(s)[i].to,
                      condition |-> guarded(s)[i].condition]],
             step |-> StepOf(steps, s)]]

(***************************************************************************)
(* Ready-set computation: get_next_steps inside _execute_workflow_graph.   *)
(***************************************************************************)
\* (variant: the output of the predecessor is not consulted)
BranchTakenIgnoresOutput(outputs, pred_id) == "default"

\* the branch a predecessor took, as the ready-set computation reads it
BranchTaken(outputs, pred_id) ==
    LET pred_output == Get(outputs, pred_id, [branch |-> None, error |-> None])
    IN  IF pred_output.branch = None THEN "default" ELSE pred_output.branch

\* is_in_branch for one predecessor
IsInBranch(graph, outputs, pred_id, step_id) ==
    \E i \in 1..Len(graph[pred_id].conditional_successors) :
        LET succ == graph[pred_id].conditional_successors[i]
        IN  /\ succ.step_id = step_id
            /\ \/ succ.condition = BranchTaken(outputs, pred_id)
               \/ succ.condition = "*"

\* (variant: an unconditional connection from the predecessor is not looked at)
ShouldExecuteBranchOnly(graph, outputs, step_id) ==
    \A pred_id \in Range(graph[step_id].predecessors) :
        \/ pred_id \notin DOMAIN graph
        \/ graph[pred_id].conditional_successors = <<>>
        \/ IsInBranch(graph, outputs, pred_id, step_id)

\* should_execute: no predecessor with conditional successors excludes the step
ShouldExecute(graph, outputs, step_id) ==
    \A pred_id \in Range(graph[step_id].predecessors) :
        \/ pred_id \notin DOMAIN graph
        \/ graph[pred_id].conditional_successors = <<>>
        \/ IsInBranch(graph, outputs, pred_id, step_id)
        \/ step_id \in Range(graph[pred_id].successors)

\* (variant: one completed predecessor is enough)
PredsCompletedAny(graph, completed, step_id) ==
    \/ graph[step_id].predecessors = <<>>
    \/ \E pred \in Range(graph[step_id].predecessors) : pred \in completed

\* all(pred in completed_steps for pred in preds), true when there are none
PredsCompleted(graph, completed, step_id) ==
    \A pred \in Range(graph[step_id].predecessors) : pred \in completed

\* (variant: only the first ready step is handed out)
get_next_steps_first_only(order, graph, completed, skipped, outputs) ==
    LET candidates == SelectSeq(order, LAMBDA s :
                        /\ s \notin completed
                        /\ s \notin skipped
                        /\ PredsCompleted(graph, completed, s))
        ready == SelectSeq(candidates, LAMBDA s : ShouldExecute(graph, outputs, s))
    IN  [next_steps |-> IF ready = <<>> THEN <<>> ELSE <<Head(ready)>>,
         skipped    |-> {s \in Range(candidates) :
                            ~ShouldExecute(graph, outputs, s)}]

\* get_next_steps: the ready list (in graph order) and the steps it skips
get_next_steps(order, graph, completed, skipped, outputs) ==
    LET candidates == SelectSeq(order, LAMBDA s :
                        /\ s \notin completed
                        /\ s \notin skipped
                        /\ PredsCompleted(graph, completed, s))
    IN  [next_steps |-> SelectSeq(candidates,
                            LAMBDA s : ShouldExecute(graph, outputs, s)),
         skipped    |-> {s \in Range(candidates) :
                            ~ShouldExecute(graph, outputs, s)}]

(***************************************************************************)
(* Step Dispatcher: _get_step_handler, the handlers, _execute_step.        *)
(***************************************************************************)
\* the step types _get_step_handler has a handler for
HandlerTypes == {"http", "script", "transform", "condition", "branch"}

_get_step_handler(step_type) ==
    IF step_type \in HandlerTypes THEN step_type ELSE None

\* _handle_http_step: the branch follows the status class of the response,
\* and the status of the placeholder request is always 200
_handle_http_step ==
    LET status_code == 200
    IN  [branch |-> IF status_code >= 400 THEN "error"
                    ELSE IF status_code >= 300 THEN "redirect"
                    ELSE "success",
         error  |-> None]

\* _handle_branch_step with an empty rules list: the default branch
_handle_branch_step(config) ==
    [branch |-> config.default, error |-> None]

\* handler(step_input, config, context) for the handler of the step's type
HandlerOutput(step) ==
    IF step.type = "branch" THEN _handle_branch_step(step.config)
    ELSE _handle_http_step

\* what the environment does to one execution of a step: whether the handler
\* raises, and whether each of the three lifecycle broadcasts (step_started,
\* step_completed, step_error) goes through
StepEnvs ==
    [raises : BOOLEAN,
     started_ok : BOOLEAN, completed_ok : BOOLEAN, error_ok : BOOLEAN]

\* a finished _execute_step: it returned (success, output) ...
Returned(ok, output) ==
    [state |-> "returned", success |-> ok, output |-> output, context |-> None]

\* ... or an exception left it; context is the exception that was being
\* handled when this one was raised (its __context__)
Raised(msg, context) ==
    [state |-> "raised", success |-> FALSE,
     output |-> [branch |-> None, error |-> msg], context |-> context]

\* a task that has not finished yet
Pending ==
    [state |-> "pending", success |-> FALSE,
     output |-> [branch |-> None, error |-> None], context |-> None]

\* the except block of _execute_step: log, broadcast step_error, return
\* failure; the broadcast is awaited outside any try
StepExcept(msg, env) ==
    IF env.error_ok THEN Returned(FALSE, [branch |-> None, error |-> msg])
    ELSE Raised("broadcast failed", msg)

_execute_step(step, env) ==
    IF ~env.started_ok THEN StepExcept("broadcast failed", env)
    ELSE IF _get_step_handler(step.type) = None
         THEN Returned(FALSE, [branch |-> None, error |-> "Unknown step type"])
    ELSE IF env.raises THEN StepExcept("handler raised", env)
    ELSE IF ~env.completed_ok THEN StepExcept("broadcast failed", env)
    ELSE Returned(TRUE, HandlerOutput(step))


(***************************************************************************)
(* The engine's tick loop: WorkflowEngine.execute_workflow and             *)
(* _execute_workflow_graph.                                                *)
(***************************************************************************)
EngineInit ==
    /\ pc = "start"
    /\ definition \in Definitions
    /\ dependency_graph = EmptyMap
    /\ completed_steps = {}
    /\ skipped_steps = {}
    /\ step_outputs = EmptyMap
    /\ steps_results = EmptyMap
    /\ branches_taken = EmptyMap
    /\ ready_steps = <<>>
    /\ running = {}
    /\ exec_results = EmptyMap
    /\ success = None
    /\ ticks = <<>>

\* execute_workflow up to the call of _execute_workflow_graph: a definition
\* without steps returns at once, otherwise the graph is built.
StartRun ==
    /\ pc = "start"
    /\ IF definition.steps = <<>>
       THEN /\ pc' = "done"
            /\ success' = FALSE
            /\ UNCHANGED dependency_graph
       ELSE /\ pc' = "tick"
            /\ dependency_graph' =
                   _build_dependency_graph(definition.steps, definition.connections)
            /\ UNCHANGED success
    /\ UNCHANGED <<definition, completed_steps, skipped_steps, step_outputs,
                   steps_results, branches_taken, ready_steps, running,
                   exec_results, ticks>>
    /\ UNCHANGED schedVars
    /\ UNCHANGED runVars
    /\ UNCHANGED lifeVars

Ready ==
    get_next_steps(GraphOrder(definition.steps), dependency_graph,
                   completed_steps, skipped_steps, step_outputs)

\* (variant: the steps a ready-set computation skips are not kept)
MarkSkippedForgets(skipped, newly_skipped) == skipped

\* skipped_steps.add(step_id) for the steps a ready-set computation skips
MarkSkipped(skipped, newly_skipped) == skipped \cup newly_skipped

\* Top of the loop with a non-empty ready list: the steps are handed to
\* _execute_step (one awaited directly, several through asyncio.gather).
Dispatch ==
    /\ pc = "tick"
    /\ Ready.next_steps # <<>>
    /\ skipped_steps' = MarkSkipped(skipped_steps, Ready.skipped)
    /\ ready_steps' = Ready.next_steps
    /\ running' = running \cup Range(Ready.next_steps)
    /\ exec_results' = [step_id \in Range(Ready.next_steps) |-> Pending]
    /\ ticks' = Append(ticks, Ready.next_steps)
    /\ pc' = "running"
    /\ UNCHANGED <<definition, dependency_graph, completed_steps, step_outputs,
                   steps_results, branches_taken, success>>
    /\ UNCHANGED schedVars
    /\ UNCHANGED runVars
    /\ UNCHANGED lifeVars

\* One _execute_step of the current tick finishes, in any order.
StepFinishes ==
    /\ pc = "running"
    /\ \E step_id \in running, env \in StepEnvs :
        /\ exec_results' = Put(exec_results, step_id,
               _execute_step(dependency_graph[step_id].step, env))
        /\ running' = running \ {step_id}
    /\ UNCHANGED <<pc, definition, dependency_graph, completed_steps,
                   skipped_steps, step_outputs, steps_results, branches_taken,
                   ready_steps, success, ticks>>
    /\ UNCHANGED schedVars
    /\ UNCHANGED runVars
    /\ UNCHANGED lifeVars

\* _execute_steps_in_parallel, lines 606-643: an exception that gather
\* captured becomes a failed result
GatherResult(r) ==
    IF r.state = "raised" THEN Returned(FALSE, r.output) ELSE r

\* (variant: the driver resumes as soon as one task has finished)
FirstFinished == running # Range(ready_steps)

\* "await exec_tasks" / "await self._execute_step(...)": the driver resumes
\* when every task of the tick has finished
AllFinished == running = {}

\* the loop state the result processing works on
LoopState ==
    [completed |-> completed_steps, outputs |-> step_outputs,
     results |-> steps_results, branches |-> branches_taken, aborted |-> FALSE]

\* (variant: only a successful step joins completed_steps)
MarksCompletedOnSuccess(ok) == ok

\* "Mark as completed": which steps join completed_steps
MarksCompleted(ok) == TRUE

\* (variant: the critical flag is not looked at)
CriticalFailureIgnored(ok, step) == FALSE

\* "if not success and step_data.get("critical", False)": the failure stops
\* the run
CriticalFailure(ok, step) == ~ok /\ step.critical

\* the body of the result loop for one step (lines 394-434 and 457-492)
RecordResult(st, step_id, r, parallel, group) ==
    LET step == dependency_graph[step_id].step
    IN  [completed |-> IF MarksCompleted(r.success)
                       THEN st.completed \cup {step_id} ELSE st.completed,
         outputs   |-> IF r.success THEN Put(st.outputs, step_id, r.output)
                       ELSE st.outputs,
         results   |-> Put(st.results, step_id,
                           [success |-> r.success, output |-> r.output,
                            executed_in_parallel |-> parallel,
                            parallel_group |-> group]),
         branches  |-> IF r.success /\ r.output.branch # None
                       THEN Put(st.branches, step_id, r.output.branch)
                       ELSE st.branches,
         aborted   |-> CriticalFailure(r.success, step)]

\* the result loop of a parallel batch: in batch order, stopping at the
\* first critical failure
RECURSIVE ProcessParallel(_, _, _)
ProcessParallel(st, group, i) ==
    IF i > Len(group) \/ st.aborted THEN st
    ELSE ProcessParallel(
            RecordResult(st, group[i], GatherResult(exec_results[group[i]]),
                         TRUE, group),
            group, i + 1)

\* (variant: the skipped filter is inverted)
AnyStepFailedAmongSkipped(results, skipped) ==
    \E step_id \in DOMAIN results :
        step_id \in skipped /\ ~results[step_id].success

\* any_step_failed, lines 507-514
AnyStepFailed(results, skipped) ==
    \E step_id \in DOMAIN results :
        step_id \notin skipped /\ ~results[step_id].success

\* Every step of the tick has finished: the results are recorded and the
\* loop goes back to its top, unless a critical step failed (return False)
\* or, for a step awaited directly, its exception leaves the run.
ProcessResults ==
    /\ pc = "running"
    /\ AllFinished
    /\ LET single == Len(ready_steps) = 1
           st == IF single
                 THEN RecordResult(LoopState, ready_steps[1],
                                   exec_results[ready_steps[1]], FALSE, <<>>)
                 ELSE ProcessParallel(LoopState, ready_steps, 1)
       IN  IF single /\ exec_results[ready_steps[1]].state = "raised"
           THEN /\ pc' = "raised"
                /\ UNCHANGED <<completed_steps, step_outputs, steps_results,
                               branches_taken, success>>
           ELSE /\ completed_steps' = st.completed
                /\ step_outputs' = st.outputs
                /\ steps_results' = st.results
                /\ branches_taken' = st.branches
                /\ pc' = IF st.aborted THEN "done" ELSE "tick"
                /\ success' = IF st.aborted THEN FALSE ELSE success
    /\ UNCHANGED <<definition, dependency_graph, skipped_steps, ready_steps,
                   running, exec_results, ticks>>
    /\ UNCHANGED schedVars
    /\ UNCHANGED runVars
    /\ UNCHANGED lifeVars

\* Top of the loop with an empty ready list: the loop ends and the success
\* flag is computed.
LoopExit ==
    /\ pc = "tick"
    /\ Ready.next_steps = <<>>
    /\ skipped_steps' = MarkSkipped(skipped_steps, Ready.skipped)
    /\ success' = ~AnyStepFailed(steps_results, skipped_steps')
    /\ pc' = "done"
    /\ UNCHANGED <<definition, dependency_graph, completed_steps, step_outputs,
                   steps_results, branches_taken, ready_steps, running,
                   exec_results, ticks>>
    /\ UNCHANGED schedVars
    /\ UNCHANGED runVars
    /\ UNCHANGED lifeVars

\* the scheduler is not part of a run
SchedIdle ==
    /\ now = 0
    /\ executions = {}
    /\ scans = <<>>
    /\ background_tasks = <<>>
    /\ loaded_schedules = <<>>

\* Viewers that may open a websocket for the run's logs.
MaxViewers == 3
Viewers == 1..MaxViewers

\* WebSocketManager.__init__: no run_id is registered; no viewer has
\* connected and broadcast_run_completion has not been called
ViewersIdle ==
    /\ active_connections = {}
    /\ client = [v \in Viewers |-> "none"]
    /\ completion = [pc |-> "idle", connections |-> <<>>, i |-> 0]
    /\ sent = {}
    /\ closed = {}
    /\ removed = {}

\* no Execution row is followed in a run of the tick loop alone
RunsIdle ==
    /\ ViewersIdle
    /\ status = None
    /\ workers = <<>>
    /\ execution_logs = {}
    /\ undelivered = {}
    /\ cancel_response = None
    /\ error_message = None
    /\ run_completion = <<>>

\* Scheduler.__init__: not running, no task, the stop event clear
LifeIdle ==
    /\ scheduler = [is_running |-> FALSE, stop_event |-> FALSE, task |-> 0]
    /\ loop_tasks = <<>>
    /\ stop_call = [waiting |-> FALSE, awaited |-> 0, deadline |-> 0]
    /\ scans_at_stop = -1

Init == EngineInit /\ SchedIdle /\ RunsIdle /\ LifeIdle

Next ==
    \/ StartRun
    \/ Dispatch
    \/ StepFinishes
    \/ ProcessResults
    \/ LoopExit

Spec == Init /\ [][Next]_vars

\* The run under the event loop's scheduling: the driver coroutine is
\* resumed whenever it can continue, and every _execute_step that was
\* started finishes (its handler returns or raises).
\* It is followed on the definitions whose loop could fail to end: those
\* with a connection that leads back or dangles, the hand-written ones and
\* those in which a critical step fails.
FairDefinitions ==
    UnvalidatedDefinitions
        \cup {DiamondDefinition, OverrideDefinition, EmptyDefinition}
        \cup {d \in GeneratedDefinitions :
                 \E i \in 1..Len(d.steps) :
                     d.steps[i].critical /\ d.steps[i].type = "email"}

FairInit == Init /\ definition \in FairDefinitions

FairSpec == FairInit /\ [][Next]_vars /\ WF_vars(Next)


(***************************************************************************)
(* Scheduler: the periodic scan of app/services/scheduler.py.              *)
(* Times are seconds on the UTC clock; a fire time is a whole minute.      *)
(***************************************************************************)
\* SchedulerSettings.scan_interval_seconds
scan_interval_seconds == 60

\* the buffer added to the scan interval in the due test
DueBuffer == 10

\* The clock starts at 00:58:00 and the model follows it for Horizon seconds,
\* over at most MaxScans scans.
StartTime == 3480
Horizon == 180
MaxScans == 3

\* how far the clock moves between two observations
AdvanceSteps == {15, 60}

\* default inputs stored with a schedule (the other schedules have none)
DefaultInputs == [region |-> "eu"]

\* WorkflowSchedule rows joined with their Workflow's is_active
Schedules ==
    << [id |-> "s1", workflow_id |-> "w1", cron_expression |-> "* * * * *",
        timezone |-> "UTC", is_active |-> TRUE, workflow_active |-> TRUE,
        execution_inputs |-> DefaultInputs],
       [id |-> "s2", workflow_id |-> "w1", cron_expression |-> "not a cron",
        timezone |-> "UTC", is_active |-> TRUE, workflow_active |-> TRUE,
        execution_inputs |-> EmptyMap],
       [id |-> "s3", workflow_id |-> "w2", cron_expression |-> "* * * * *",
        timezone |-> "UTC", is_active |-> FALSE, workflow_active |-> TRUE,
        execution_inputs |-> EmptyMap],
       [id |-> "s5", workflow_id |-> "w2", cron_expression |-> "* * * * *",
        timezone |-> "Mars/Phobos", is_active |-> TRUE, workflow_active |-> TRUE,
        execution_inputs |-> EmptyMap],
       [id |-> "s4", workflow_id |-> "w2", cron_expression |-> "0 * * * *",
        timezone |-> "UTC", is_active |-> TRUE, workflow_active |-> TRUE,
        execution_inputs |-> EmptyMap] >>

\* _get_active_schedules
_get_active_schedules ==
    SelectSeq(Schedules, LAMBDA sch : sch.is_active /\ sch.workflow_active)

\* minute of the hour of a time, as datetime.minute
MinuteOfHour(t) == (t \div 60) % 60

\* the calendar minute a time lies in (minutes since 00:00)
CalendarMinute(t) == t \div 60

\* the zone names pytz.timezone accepts here (any other raises)
ValidTimezone(tz) == tz \in {"UTC"}

\* the cron expressions croniter accepts here, and whether one fires at a
\* whole minute ("0 * * * *" at the top of the hour)
ValidCron(expr) == expr \in {"* * * * *", "0 * * * *"}

CronFires(expr, t) ==
    \/ expr = "* * * * *" /\ t % 60 = 0
    \/ expr = "0 * * * *" /\ t % 3600 = 0

\* the longest distance between two fire times of these expressions
CronPeriod == 3600

\* croniter(expr, current_time).get_prev: the last fire time before
\* current_time
get_prev(expr, current_time) ==
    CHOOSE t \in (current_time - CronPeriod)..(current_time - 1) :
        /\ CronFires(expr, t)
        /\ \A u \in (t + 1)..(current_time - 1) : ~CronFires(expr, u)

\* get_next called after get_prev: the first fire time after prev_time
get_next(expr, prev_time) ==
    CHOOSE t \in (prev_time + 1)..(prev_time + CronPeriod) :
        /\ CronFires(expr, t)
        /\ \A u \in (prev_time + 1)..(t - 1) : ~CronFires(expr, u)

ExecutedBy(schedule) == <<"scheduler", schedule.id>>

\* _is_already_executed: "raise" when replace(minute=minute + 1) is out of
\* range, otherwise whether an execution of this schedule started inside
\* the window
_is_already_executed(rows, schedule, scheduled_time) ==
    LET time_window_start == scheduled_time - (scheduled_time % 60)
        minute == MinuteOfHour(time_window_start) + 1
        time_window_end == time_window_start - 60 * MinuteOfHour(time_window_start)
                           + 60 * minute
    IN  IF minute > 59 THEN "raise"
        ELSE IF \E i \in 1..Len(rows) :
                   /\ rows[i].workflow_id = schedule.workflow_id
                   /\ rows[i].started_at >= time_window_start
                   /\ rows[i].started_at < time_window_end
                   /\ rows[i].executed_by = ExecutedBy(schedule)
             THEN "found"
             ELSE "none"

\* the value stored under inputs["_schedule"]
ScheduleMetadata(schedule, scheduled_time, next_time) ==
    [schedule_id |-> schedule.id, scheduled_time |-> scheduled_time,
     next_scheduled_time |-> next_time, timezone |-> schedule.timezone]

\* "inputs = schedule.execution_inputs or {}": whether inputs is the very
\* dict object of the schedule (a dict that is not empty) and not a new one
InputsOfSchedule(schedule) == schedule.execution_inputs # EmptyMap

\* _execute_scheduled_workflow and execute_workflow: a pending execution row
\* whose start time is the time of the insert and whose inputs are the
\* schedule's with the metadata added
_execute_scheduled_workflow(rows, schedule, scheduled_time, next_time, current_time) ==
    Append(rows,
        [workflow_id |-> schedule.workflow_id,
         status |-> "pending",
         started_at |-> current_time,
         executed_by |-> ExecutedBy(schedule),
         scheduled_time |-> scheduled_time,
         next_scheduled_time |-> next_time,
         execution_inputs |->
             Put(schedule.execution_inputs, "_schedule",
                 ScheduleMetadata(schedule, scheduled_time, next_time))])

\* the WorkflowSchedule object after _execute_scheduled_workflow: the
\* assignment inputs["_schedule"] = ... is made on the schedule's own dict
\* when inputs is that dict
ScheduleAfterTrigger(schedule, scheduled_time, next_time) ==
    IF InputsOfSchedule(schedule)
    THEN [schedule EXCEPT !.execution_inputs =
             Put(@, "_schedule",
                 ScheduleMetadata(schedule, scheduled_time, next_time))]
    ELSE schedule

\* the due test of _process_schedule
IsDue(time_diff_seconds) ==
    0 <= time_diff_seconds /\ time_diff_seconds <= scan_interval_seconds + DueBuffer

\* whether an exception leaves _process_schedule: pytz rejects the zone, or
\* the schedule is due and the window computation raises (an invalid cron
\* expression is caught inside and is a plain return)
ProcessScheduleRaises(rows, schedule, current_time) ==
    IF ~ValidTimezone(schedule.timezone) THEN TRUE
    ELSE IF ~ValidCron(schedule.cron_expression) THEN FALSE
    ELSE LET prev_time == get_prev(schedule.cron_expression, current_time)
         IN  /\ IsDue(current_time - prev_time)
             /\ _is_already_executed(rows, schedule, prev_time) = "raise"

\* _process_schedule: the execution rows after one schedule was processed
\* (unchanged when the zone or the cron expression is invalid, the schedule
\* is not due, an execution is found, or the window computation raises)
_process_schedule(rows, schedule, current_time) ==
    IF ~ValidTimezone(schedule.timezone) THEN rows
    ELSE IF ~ValidCron(schedule.cron_expression) THEN rows
    ELSE LET prev_time == get_prev(schedule.cron_expression, current_time)
             next_time == get_next(schedule.cron_expression, prev_time)
             time_diff_seconds == current_time - prev_time
         IN  IF IsDue(time_diff_seconds)
             THEN IF _is_already_executed(rows, schedule, prev_time) = "none"
                  THEN _execute_scheduled_workflow(rows, schedule, prev_time,
                                                   next_time, current_time)
                  ELSE rows
             ELSE rows

\* (variant: no try around the processing of one schedule, its exception
\* ends the scan)
RECURSIVE ProcessAllUnguarded(_, _, _, _)
ProcessAllUnguarded(rows, active, i, current_time) ==
    IF i > Len(active) THEN rows
    ELSE IF ProcessScheduleRaises(rows, active[i], current_time) THEN rows
    ELSE ProcessAllUnguarded(_process_schedule(rows, active[i], current_time),
                             active, i + 1, current_time)

\* _process_scheduled_workflows: every active schedule in turn, each inside
\* its own try
RECURSIVE ProcessAll(_, _, _, _)
ProcessAll(rows, active, i, current_time) ==
    IF i > Len(active) THEN rows
    ELSE ProcessAll(_process_schedule(rows, active[i], current_time),
                    active, i + 1, current_time)

\* the WorkflowSchedule objects of the session of a scan, as the scan
\* leaves them: a schedule for which an execution was created has been
\* through _execute_scheduled_workflow
RECURSIVE SchedulesAfter(_, _, _, _)
SchedulesAfter(rows, active, i, current_time) ==
    IF i > Len(active) THEN <<>>
    ELSE LET after == _process_schedule(rows, active[i], current_time)
             prev_time == get_prev(active[i].cron_expression, current_time)
             next_time == get_next(active[i].cron_expression, prev_time)
         IN  << IF after # rows
                THEN ScheduleAfterTrigger(active[i], prev_time, next_time)
                ELSE active[i] >>
             \o SchedulesAfter(after, active, i + 1, current_time)

SchedulerInit ==
    /\ now = StartTime
    /\ executions = <<>>
    /\ scans = <<>>
    /\ background_tasks = <<>>
    /\ loaded_schedules = <<>>

\* the engine is not part of the scheduler's specification
EngineIdle ==
    /\ pc = "idle"
    /\ definition = EmptyDefinition
    /\ dependency_graph = EmptyMap
    /\ completed_steps = {}
    /\ skipped_steps = {}
    /\ step_outputs = EmptyMap
    /\ steps_results = EmptyMap
    /\ branches_taken = EmptyMap
    /\ ready_steps = <<>>
    /\ running = {}
    /\ exec_results = EmptyMap
    /\ success = None
    /\ ticks = <<>>

\* time passes
AdvanceClock ==
    /\ \E d \in AdvanceSteps :
          /\ now + d <= StartTime + Horizon
          /\ now' = now + d
    /\ UNCHANGED <<executions, scans, background_tasks, loaded_schedules>>
    /\ UNCHANGED engineVars
    /\ UNCHANGED runVars
    /\ UNCHANGED lifeVars

\* One scan (by the loop of a Scheduler instance or by the periodic task);
\* two scans never read the same clock value.
Scan ==
    /\ Len(scans) < MaxScans
    /\ IF scans = <<>> THEN TRUE ELSE scans[Len(scans)] < now
    /\ executions' = ProcessAll(executions, _get_active_schedules, 1, now)
    /\ loaded_schedules' = SchedulesAfter(executions, _get_active_schedules, 1, now)
    /\ scans' = Append(scans, now)
    /\ UNCHANGED <<now, background_tasks>>
    /\ UNCHANGED engineVars
    /\ UNCHANGED runVars
    /\ UNCHANGED lifeVars

SchedInit == SchedulerInit /\ EngineIdle /\ RunsIdle /\ LifeIdle

SchedNext ==
    \/ AdvanceClock
    \/ Scan

SchedSpec == SchedInit /\ [][SchedNext]_vars


(***************************************************************************)
(* The scans made around the end of the due window of the fire time 01:00, *)
(* second by second: the scans of the Scheduler objects of the module      *)
(* (scheduler, scheduler_instance) and of the periodic task are not        *)
(* synchronised with each other.                                           *)
(***************************************************************************)
\* The clock starts at 01:00:50 and is followed for LateHorizon seconds in
\* steps of LateStep seconds.
LateStart == 3650
LateHorizon == 24
LateStep == 2

\* the scheduler starts late in the minute, nothing has been created
LateInit ==
    /\ now = LateStart
    /\ executions = <<>>
    /\ scans = <<>>
    /\ background_tasks = <<>>
    /\ loaded_schedules = <<>>
    /\ EngineIdle
    /\ RunsIdle
    /\ LifeIdle

\* time passes
LateClock ==
    /\ now + LateStep <= LateStart + LateHorizon
    /\ now' = now + LateStep
    /\ UNCHANGED <<executions, scans, background_tasks, loaded_schedules>>
    /\ UNCHANGED engineVars
    /\ UNCHANGED runVars
    /\ UNCHANGED lifeVars

LateNext ==
    \/ LateClock
    \/ Scan

LateSpec == LateInit /\ [][LateNext]_vars


(***************************************************************************)
(* From the creation of an Execution to the engine: the rows the scheduler *)
(* creates, the on-demand trigger (api/v1/endpoints/executions.py) and the *)
(* background task it queues (tasks/executions.py).                        *)
(***************************************************************************)
\* most on-demand triggers followed
MaxTriggers == 2

\* current_user.sub of the caller of the endpoint
UserId == <<"user", "u1">>

\* start_execution: the Execution row is created (status pending) and
\* run_workflow_execution_task is added to the background tasks of the
\* request; the row has no schedule metadata
start_execution ==
    /\ Len(background_tasks) < MaxTriggers
    /\ executions' = Append(executions,
           [workflow_id |-> "w1",
            status |-> "pending",
            started_at |-> now,
            executed_by |-> UserId,
            scheduled_time |-> -1,
            next_scheduled_time |-> -1,
            execution_inputs |-> EmptyMap])
    /\ background_tasks' = Append(background_tasks,
           [execution |-> Len(executions) + 1, state |-> "queued"])
    /\ UNCHANGED <<now, scans, loaded_schedules>>
    /\ UNCHANGED engineVars
    /\ UNCHANGED runVars
    /\ UNCHANGED lifeVars

\* the background task runs: the coroutine run_workflow_execution_task reads
\* the attribute delay of the module-level name run_workflow_execution_task,
\* which is bound to this coroutine function itself (the second definition
\* of the name replaced the Celery task), and raises AttributeError; no
\* engine run is started and the row is not written
run_workflow_execution_task(k) ==
    /\ background_tasks[k].state = "queued"
    /\ background_tasks' = [background_tasks EXCEPT ![k].state = "raised"]
    /\ UNCHANGED <<now, executions, scans, loaded_schedules>>
    /\ UNCHANGED engineVars
    /\ UNCHANGED runVars
    /\ UNCHANGED lifeVars

\* time passes, one scan interval at a time
TriggerClock ==
    /\ now + scan_interval_seconds <= StartTime + Horizon
    /\ now' = now + scan_interval_seconds
    /\ UNCHANGED <<executions, scans, background_tasks, loaded_schedules>>
    /\ UNCHANGED engineVars
    /\ UNCHANGED runVars
    /\ UNCHANGED lifeVars

TriggerNext ==
    \/ TriggerClock
    \/ Scan
    \/ start_execution
    \/ \E k \in DOMAIN background_tasks : run_workflow_execution_task(k)

\* every queued background task is run
TriggerSpec ==
    /\ SchedInit
    /\ [][TriggerNext]_vars
    /\ \A k \in 1..MaxTriggers :
          WF_vars(k \in DOMAIN background_tasks /\ run_workflow_execution_task(k))


(***************************************************************************)
(* The lifecycle of one Scheduler: start(), stop() and the task that runs  *)
(* _run_scheduler_loop, against the clock. The calls are made by the       *)
(* application's startup and shutdown hooks, one after the other.          *)
(***************************************************************************)
\* the timeout of wait_for in stop(), seconds
StopTimeout == 10

\* the steps of the clock, the time followed, and the most start() calls
\* that create a loop task
LifeStep == 10
LifeHorizon == 70
MaxStarts == 2

\* self.task is None
NoTask == 0

\* no stop() call is waiting
NoStopCall == [waiting |-> FALSE, awaited |-> NoTask, deadline |-> 0]

\* asyncio.create_task(self._run_scheduler_loop()): a task that has not run
NewLoopTask == [state |-> "created", wake_at |-> 0]

\* the states of a task that is over
Terminated == {"done", "cancelled"}

\* (variant: the timeout of the wait ends stop() and the task is left alone)
cancel_not_delivered(loop_task) == loop_task

\* the cancellation of a task, awaited until the task has ended
cancel(loop_task) ==
    IF loop_task.state \in Terminated THEN loop_task
    ELSE [loop_task EXCEPT !.state = "cancelled"]

\* Scheduler.start, whoever calls it and whenever
StartCall ==
    /\ Len(loop_tasks) < MaxStarts
    /\ IF scheduler.is_running
       THEN UNCHANGED <<scheduler, loop_tasks, scans_at_stop>>
       ELSE /\ loop_tasks' = Append(loop_tasks, NewLoopTask)
            /\ scheduler' = [is_running |-> TRUE, stop_event |-> FALSE,
                             task |-> Len(loop_tasks) + 1]
            /\ scans_at_stop' = -1
    /\ UNCHANGED stop_call
    /\ UNCHANGED schedVars
    /\ UNCHANGED engineVars
    /\ UNCHANGED runVars

\* Scheduler.start called by the startup hook: no stop() is in progress
start == ~stop_call.waiting /\ StartCall

\* Scheduler.stop up to its wait: the flag, the stop event, and the wait for
\* the task with its timeout
stop ==
    /\ ~stop_call.waiting
    /\ IF ~scheduler.is_running
       THEN UNCHANGED <<scheduler, stop_call, scans_at_stop>>
       ELSE /\ scheduler' = [scheduler EXCEPT !.is_running = FALSE,
                                              !.stop_event = TRUE]
            /\ IF scheduler.task = NoTask
               THEN /\ scans_at_stop' = Len(scans)
                    /\ UNCHANGED stop_call
               ELSE /\ stop_call' = [waiting |-> TRUE, awaited |-> scheduler.task,
                                     deadline |-> now + StopTimeout]
                    /\ UNCHANGED scans_at_stop
    /\ UNCHANGED loop_tasks
    /\ UNCHANGED schedVars
    /\ UNCHANGED engineVars
    /\ UNCHANGED runVars

\* the wait of stop() ends because the task has ended
StopTaskEnded ==
    /\ stop_call.waiting
    /\ loop_tasks[stop_call.awaited].state \in Terminated
    /\ scheduler' = [scheduler EXCEPT !.task = NoTask]
    /\ stop_call' = NoStopCall
    /\ scans_at_stop' = Len(scans)
    /\ UNCHANGED loop_tasks
    /\ UNCHANGED schedVars
    /\ UNCHANGED engineVars
    /\ UNCHANGED runVars

\* the wait of stop() times out: wait_for cancels the task it waited for,
\* stop() cancels self.task and awaits it
StopTimesOut ==
    /\ stop_call.waiting
    /\ loop_tasks[stop_call.awaited].state \notin Terminated
    /\ now >= stop_call.deadline
    /\ loop_tasks' = [t \in DOMAIN loop_tasks |->
                         IF t \in {stop_call.awaited, scheduler.task}
                         THEN cancel(loop_tasks[t]) ELSE loop_tasks[t]]
    /\ scheduler' = [scheduler EXCEPT !.task = NoTask]
    /\ stop_call' = NoStopCall
    /\ scans_at_stop' = Len(scans)
    /\ UNCHANGED schedVars
    /\ UNCHANGED engineVars
    /\ UNCHANGED runVars

\* _run_scheduler_loop at its loop test (on its first run, or when its wait
\* for the stop event has ended): it returns when the stop event is set and
\* otherwise begins a scan
LoopIterates(t) ==
    /\ \/ loop_tasks[t].state = "created"
       \/ /\ loop_tasks[t].state = "sleeping"
          /\ scheduler.stop_event \/ now >= loop_tasks[t].wake_at
    /\ IF scheduler.stop_event
       THEN /\ loop_tasks' = [loop_tasks EXCEPT ![t].state = "done"]
            /\ UNCHANGED scans
       ELSE /\ Len(scans) < MaxScans
            /\ loop_tasks' = [loop_tasks EXCEPT ![t].state = "scanning"]
            /\ scans' = Append(scans, now)
    /\ UNCHANGED <<now, executions, background_tasks, loaded_schedules>>
    /\ UNCHANGED <<scheduler, stop_call, scans_at_stop>>
    /\ UNCHANGED engineVars
    /\ UNCHANGED runVars

\* the scan of the loop ends and the loop waits for the stop event, for at
\* most the scan interval
ScanEnds(t) ==
    /\ loop_tasks[t].state = "scanning"
    /\ executions' = ProcessAll(executions, _get_active_schedules, 1, now)
    /\ loaded_schedules' = SchedulesAfter(executions, _get_active_schedules, 1, now)
    /\ loop_tasks' = [loop_tasks EXCEPT
                         ![t].state = "sleeping",
                         ![t].wake_at = now + scan_interval_seconds]
    /\ UNCHANGED <<now, scans, background_tasks>>
    /\ UNCHANGED <<scheduler, stop_call, scans_at_stop>>
    /\ UNCHANGED engineVars
    /\ UNCHANGED runVars

\* time passes, but not past the timeout of a waiting stop() nor past the
\* end of a wait of the loop
LifeClock ==
    /\ now + LifeStep <= StartTime + LifeHorizon
    /\ stop_call.waiting => now + LifeStep <= stop_call.deadline
    /\ \A t \in DOMAIN loop_tasks :
          loop_tasks[t].state = "sleeping" =>
              /\ ~scheduler.stop_event
              /\ now + LifeStep <= loop_tasks[t].wake_at
    /\ now' = now + LifeStep
    /\ UNCHANGED <<executions, scans, background_tasks, loaded_schedules>>
    /\ UNCHANGED lifeVars
    /\ UNCHANGED engineVars
    /\ UNCHANGED runVars

LifeInit == SchedulerInit /\ EngineIdle /\ RunsIdle /\ LifeIdle

LifeNext ==
    \/ start
    \/ stop
    \/ StopTaskEnded
    \/ StopTimesOut
    \/ \E t \in DOMAIN loop_tasks : LoopIterates(t)
    \/ \E t \in DOMAIN loop_tasks : ScanEnds(t)
    \/ LifeClock

LifeSpec == LifeInit /\ [][LifeNext]_vars

\* The same Scheduler with start() called from any coroutine, also while a
\* stop() is waiting for the loop task (stop() gives up control at its
\* await); one stop() at a time is followed through its wait.
OverlapNext ==
    \/ StartCall
    \/ stop
    \/ StopTaskEnded
    \/ StopTimesOut
    \/ \E t \in DOMAIN loop_tasks : LoopIterates(t)
    \/ \E t \in DOMAIN loop_tasks : ScanEnds(t)
    \/ LifeClock

OverlapSpec == LifeInit /\ [][OverlapNext]_vars


(***************************************************************************)
(* One Execution row driven by engine runs: execute_workflow from its      *)
(* first log to its final status write, the log sink, and the cancel       *)
(* endpoint (api/v1/endpoints/executions.py).                              *)
(***************************************************************************)
\* the workers that may be handed the same execution id
Workers == {"w1", "w2"}

\* what can happen to the broadcast of a log entry: it goes through (TRUE)
\* or it fails (FALSE)
BroadcastOutcomes == BOOLEAN

\* the statuses after which an Execution is over
TerminalStatuses == {"completed", "failed", "cancelled"}

\* the definitions of these runs: the steps run in list order (no
\* connections), so every tick has one ready step
RunDefinitions == {[steps |-> sl, connections |-> <<>>] : sl \in StepLists}

\* the same with the last step left out, for the runs of two workers
ShortRunDefinitions ==
    {[steps |-> SubSeq(sl, 1, Len(sl) - 1), connections |-> <<>>] : sl \in StepLists}

\* the loop state at the start of _execute_workflow_graph
InitialLoopState ==
    [completed |-> {}, outputs |-> EmptyMap, results |-> EmptyMap,
     branches |-> EmptyMap, aborted |-> FALSE]

\* a worker that has not been handed the execution; flag_checks counts the
\* reads of the Execution's status made at the top of a tick
IdleWorker ==
    [pc |-> "idle", st |-> InitialLoopState, skipped |-> {}, ticks |-> <<>>,
     success |-> None, flag_checks |-> 0]

\* (variant: the broadcast comes before the commit, and the rollback of the
\* except block drops the entry)
_log_execution_broadcast_first(logs, failed, entry, broadcast_ok) ==
    [logs        |-> IF broadcast_ok THEN logs \cup {entry} ELSE logs,
     undelivered |-> IF broadcast_ok THEN failed ELSE failed \cup {entry},
     raised      |-> FALSE]

\* _log_execution: the entry is added and committed, then broadcast inside
\* the same try; an exception of the broadcast is caught and not raised
_log_execution(logs, failed, entry, broadcast_ok) ==
    [logs        |-> logs \cup {entry},
     undelivered |-> IF broadcast_ok THEN failed ELSE failed \cup {entry},
     raised      |-> FALSE]

\* several calls of _log_execution in program order
RECURSIVE LogAll(_, _, _, _)
LogAll(logs, failed, entries, broadcast_ok) ==
    IF entries = <<>> THEN [logs |-> logs, undelivered |-> failed, raised |-> FALSE]
    ELSE LET r == _log_execution(logs, failed, Head(entries), broadcast_ok)
         IN  IF r.raised THEN r
             ELSE LogAll(r.logs, r.undelivered, Tail(entries), broadcast_ok)

\* the log entries _execute_step writes for one execution of a step
StepLogs(step, env) ==
    <<  <<step.id, "Executing step">>  >> \o
    ( IF ~env.started_ok THEN <<  <<step.id, "Error executing step">>  >>
      ELSE IF _get_step_handler(step.type) = None
           THEN <<  <<step.id, "Unknown step type">>  >>
      ELSE IF env.raises THEN <<  <<step.id, "Error executing step">>  >>
      ELSE IF ~env.completed_ok
           THEN <<  <<step.id, "Step completed">>,
                    <<step.id, "Error executing step">>  >>
      ELSE <<  <<step.id, "Step completed">>  >> )

\* the log entries the loop writes after a step returned: the branch it
\* selected, and the stop on a critical failure
ResultLogs(step, r) ==
    ( IF r.success /\ r.output.branch # None
      THEN <<  <<step.id, "selected branch">>  >> ELSE <<>> ) \o
    ( IF CriticalFailure(r.success, step)
      THEN <<  <<step.id, "stopped due to failure in critical step">>  >>
      ELSE <<>> )

\* the steps with a recorded result, in the order in which the results were
\* recorded (the insertion order of context["steps_results"])
RECURSIVE Flatten(_)
Flatten(tick_list) ==
    IF tick_list = <<>> THEN <<>> ELSE Head(tick_list) \o Flatten(Tail(tick_list))

ResultOrder(results, tick_list) ==
    SelectSeq(Flatten(tick_list), LAMBDA s : s \in DOMAIN results)

\* "Find the first error message": the error of the first recorded result
\* that failed, None when there is none
FirstErrorMessage(results, order) ==
    LET failed == SelectSeq(order, LAMBDA s :
                      ~results[s].success /\ results[s].output.error # None)
    IN  IF failed = <<>> THEN None ELSE results[Head(failed)].output.error

\* (variant: the except block around the commit does not re-raise)
_update_execution_status_swallows(stored, new_status, results, order, commit_ok) ==
    LET first == FirstErrorMessage(results, order)
    IN  IF commit_ok
        THEN [status |-> new_status,
              error_message |-> IF new_status = "failed" /\ first # None
                                THEN first ELSE stored.error_message,
              raised |-> FALSE]
        ELSE [status |-> stored.status, error_message |-> stored.error_message,
              raised |-> FALSE]

\* _update_execution_status: the row's status becomes the one passed in,
\* whatever it was, and a failed run stores the first error message; when
\* the commit fails the transaction is rolled back and the exception raised
\* again
_update_execution_status(stored, new_status, results, order, commit_ok) ==
    LET first == FirstErrorMessage(results, order)
    IN  IF commit_ok
        THEN [status |-> new_status,
              error_message |-> IF new_status = "failed" /\ first # None
                                THEN first ELSE stored.error_message,
              raised |-> FALSE]
        ELSE [status |-> stored.status, error_message |-> stored.error_message,
              raised |-> TRUE]

RunsInitWith(worker_ids, definitions) ==
    /\ pc = "idle"
    /\ definition \in definitions
    /\ dependency_graph =
           _build_dependency_graph(definition.steps, definition.connections)
    /\ completed_steps = {}
    /\ skipped_steps = {}
    /\ step_outputs = EmptyMap
    /\ steps_results = EmptyMap
    /\ branches_taken = EmptyMap
    /\ ready_steps = <<>>
    /\ running = {}
    /\ exec_results = EmptyMap
    /\ success = None
    /\ ticks = <<>>
    /\ SchedIdle
    /\ LifeIdle
    /\ ViewersIdle
    /\ status = "pending"
    /\ workers = [w \in worker_ids |-> IdleWorker]
    /\ execution_logs = {<<"execution", "Execution created and queued">>}
    /\ undelivered = {}
    /\ cancel_response = None
    /\ error_message = None
    /\ run_completion = <<>>

\* the ready list of a worker's run
WorkerReady(w) ==
    get_next_steps(GraphOrder(definition.steps), dependency_graph,
                   workers[w].st.completed, workers[w].skipped,
                   workers[w].st.outputs)

\* execute_workflow up to the loop: the workflow is read, the graph built
\* and the start of the run logged; when the workflow is not found or its
\* definition has no steps, the error is logged and success False returned
\* at once
RunBegins(w, outcomes, lookups) ==
    /\ workers[w].pc = "idle"
    /\ \E broadcast_ok \in outcomes, found \in lookups :
          LET early == ~found \/ definition.steps = <<>>
              entry == IF ~found
                       THEN <<"workflow_lookup", "Workflow not found">>
                       ELSE IF definition.steps = <<>>
                       THEN <<"workflow_validation", "Workflow has no steps defined">>
                       ELSE <<"workflow_start", "Starting workflow execution">>
              l == _log_execution(execution_logs, undelivered, entry,
                                  broadcast_ok)
          IN  /\ execution_logs' = l.logs
              /\ undelivered' = l.undelivered
              /\ workers' = [workers EXCEPT
                    ![w].success = IF early /\ ~l.raised THEN FALSE ELSE @,
                    ![w].pc = IF l.raised THEN "raised"
                              ELSE IF early THEN "returned" ELSE "tick"]
    /\ UNCHANGED <<status, cancel_response, error_message, run_completion>>
    /\ UNCHANGED engineVars
    /\ UNCHANGED viewVars
    /\ UNCHANGED schedVars
    /\ UNCHANGED lifeVars

\* one tick with a ready step: the step is executed and its result recorded
RunTick(w, outcomes) ==
    /\ workers[w].pc = "tick"
    /\ Len(WorkerReady(w).next_steps) = 1
    /\ \E env \in StepEnvs, broadcast_ok \in outcomes :
          LET step_id == WorkerReady(w).next_steps[1]
              step == dependency_graph[step_id].step
              r == _execute_step(step, env)
              st == RecordResult(workers[w].st, step_id, r, FALSE, <<>>)
              entries == StepLogs(step, env) \o
                         (IF r.state = "raised" THEN <<>> ELSE ResultLogs(step, r))
              l == LogAll(execution_logs, undelivered, entries, broadcast_ok)
          IN  /\ execution_logs' = l.logs
              /\ undelivered' = l.undelivered
              /\ workers' = [workers EXCEPT
                    ![w].ticks = Append(@, WorkerReady(w).next_steps),
                    ![w].skipped = @ \cup WorkerReady(w).skipped,
                    ![w].st = IF r.state = "raised" THEN @ ELSE st,
                    ![w].success = IF r.state # "raised" /\ st.aborted
                                   THEN FALSE ELSE @,
                    ![w].pc = IF r.state = "raised" \/ l.raised THEN "raised"
                              ELSE IF st.aborted THEN "final" ELSE "tick"]
    /\ UNCHANGED <<status, cancel_response, error_message, run_completion>>
    /\ UNCHANGED engineVars
    /\ UNCHANGED viewVars
    /\ UNCHANGED schedVars
    /\ UNCHANGED lifeVars

\* the tick with an empty ready list: the loop ends, steps left over are
\* reported, and the success flag is computed
RunLoopExit(w, outcomes) ==
    /\ workers[w].pc = "tick"
    /\ WorkerReady(w).next_steps = <<>>
    /\ \E broadcast_ok \in outcomes :
          LET skipped == workers[w].skipped \cup WorkerReady(w).skipped
              unprocessed_steps ==
                  (DOMAIN dependency_graph \ workers[w].st.completed) \ skipped
              entries == IF unprocessed_steps # {}
                         THEN <<  <<"workflow_complete", "Some steps were not executed">>  >>
                         ELSE <<>>
              l == LogAll(execution_logs, undelivered, entries, broadcast_ok)
          IN  /\ execution_logs' = l.logs
              /\ undelivered' = l.undelivered
              /\ workers' = [workers EXCEPT
                    ![w].skipped = skipped,
                    ![w].success = ~AnyStepFailed(workers[w].st.results, skipped),
                    ![w].pc = IF l.raised THEN "raised" ELSE "final"]
    /\ UNCHANGED <<status, cancel_response, error_message, run_completion>>
    /\ UNCHANGED engineVars
    /\ UNCHANGED viewVars
    /\ UNCHANGED schedVars
    /\ UNCHANGED lifeVars

\* the end of execute_workflow: the final log entry, the status write and
\* the notification that the run completed
RunFinishes(w, outcomes, commits) ==
    /\ workers[w].pc = "final"
    /\ \E broadcast_ok \in outcomes, commit_ok \in commits :
          LET l == _log_execution(execution_logs, undelivered,
                       <<"workflow_complete",
                         IF workers[w].success THEN "completed successfully"
                         ELSE "completed with errors">>,
                       broadcast_ok)
              u == _update_execution_status(
                       [status |-> status, error_message |-> error_message],
                       IF workers[w].success THEN "completed" ELSE "failed",
                       workers[w].st.results,
                       ResultOrder(workers[w].st.results, workers[w].ticks),
                       commit_ok)
          IN  /\ execution_logs' = l.logs
              /\ undelivered' = l.undelivered
              /\ IF l.raised
                 THEN /\ workers' = [workers EXCEPT ![w].pc = "raised"]
                      /\ UNCHANGED <<status, error_message, run_completion>>
                 ELSE /\ status' = u.status
                      /\ error_message' = u.error_message
                      /\ IF u.raised
                         THEN /\ workers' = [workers EXCEPT ![w].pc = "raised"]
                              /\ UNCHANGED run_completion
                         ELSE /\ workers' = [workers EXCEPT ![w].pc = "finished"]
                              /\ run_completion' =
                                     Append(run_completion, workers[w].success)
    /\ UNCHANGED cancel_response
    /\ UNCHANGED engineVars
    /\ UNCHANGED viewVars
    /\ UNCHANGED schedVars
    /\ UNCHANGED lifeVars

\* POST /executions/{id}/cancel: 400 for an Execution that is not pending or
\* running; otherwise the status is assigned on the request's own session
\* object and the next line uses datetime, a name the module never imports,
\* so the request ends in an error before its commit and the stored row
\* keeps its status
cancel_execution ==
    /\ cancel_response' =
          IF status \notin {"pending", "running"} THEN "400" ELSE "500"
    /\ cancel_response' # cancel_response
    /\ UNCHANGED <<status, workers, execution_logs, undelivered,
                   error_message, run_completion>>
    /\ UNCHANGED engineVars
    /\ UNCHANGED viewVars
    /\ UNCHANGED schedVars
    /\ UNCHANGED lifeVars

\* Two workers handed the same Execution, in any interleaving (also one
\* after the other), with a log broadcast that works.
RunsInit == RunsInitWith(Workers, ShortRunDefinitions)

RunsNext ==
    \/ \E w \in DOMAIN workers : RunBegins(w, {TRUE}, {TRUE})
    \/ \E w \in DOMAIN workers : RunTick(w, {TRUE})
    \/ \E w \in DOMAIN workers : RunLoopExit(w, {TRUE})
    \/ \E w \in DOMAIN workers : RunFinishes(w, {TRUE}, {TRUE})
    \/ cancel_execution

RunsSpec == RunsInit /\ [][RunsNext]_vars

\* One worker, with a log broadcast that may fail at every log entry group.
LogInit == RunsInitWith({"w1"}, RunDefinitions)

LogNext ==
    \/ \E w \in DOMAIN workers : RunBegins(w, BroadcastOutcomes, {TRUE})
    \/ \E w \in DOMAIN workers : RunTick(w, BroadcastOutcomes)
    \/ \E w \in DOMAIN workers : RunLoopExit(w, BroadcastOutcomes)
    \/ \E w \in DOMAIN workers : RunFinishes(w, BroadcastOutcomes, {TRUE})

LogSpec == LogInit /\ [][LogNext]_vars

\* what can happen to the commit of the final status: it goes through (TRUE)
\* or it fails (FALSE)
CommitOutcomes == BOOLEAN

\* One worker, with a final status write whose commit may fail.
StatusInit == RunsInitWith({"w1"}, RunDefinitions)

StatusNext ==
    \/ \E w \in DOMAIN workers : RunBegins(w, {TRUE}, {TRUE})
    \/ \E w \in DOMAIN workers : RunTick(w, {TRUE})
    \/ \E w \in DOMAIN workers : RunLoopExit(w, {TRUE})
    \/ \E w \in DOMAIN workers : RunFinishes(w, {TRUE}, CommitOutcomes)

StatusSpec == StatusInit /\ [][StatusNext]_vars

\* what _get_workflow can find: the workflow (TRUE) or nothing (FALSE)
LookupOutcomes == BOOLEAN

\* One worker handed an Execution whose workflow may be missing or may have
\* a definition without steps.
ReturnInit == RunsInitWith({"w1"}, RunDefinitions \cup {EmptyDefinition})

ReturnNext ==
    \/ \E w \in DOMAIN workers : RunBegins(w, {TRUE}, LookupOutcomes)
    \/ \E w \in DOMAIN workers : RunTick(w, {TRUE})
    \/ \E w \in DOMAIN workers : RunLoopExit(w, {TRUE})
    \/ \E w \in DOMAIN workers : RunFinishes(w, {TRUE}, {TRUE})

ReturnSpec == ReturnInit /\ [][ReturnNext]_vars


(***************************************************************************)
(* Vocabulary of the properties, stated on the definition and on what the  *)
(* run recorded (not on the graph the engine built).                       *)
(***************************************************************************)
AllStepIds == Range(GraphOrder(definition.steps))

\* the steps dispatched so far, over all ticks
Dispatched == UNION {Range(ticks[k]) : k \in 1..Len(ticks)}

\* the tick in which a dispatched step was dispatched
TickOf(step_id) == CHOOSE k \in 1..Len(ticks) : step_id \in Range(ticks[k])

Recorded(step_id) == step_id \in DOMAIN steps_results

Succeeded(step_id) == Recorded(step_id) /\ steps_results[step_id].success

Failed(step_id) == Recorded(step_id) /\ ~steps_results[step_id].success

IsCritical(step_id) == StepOf(definition.steps, step_id).critical

\* the run was stopped by the failure of a critical step
CriticalAbort == \E x \in AllStepIds : IsCritical(x) /\ Failed(x)

\* the tick loop ended because the ready set was empty
LoopTerminated == pc = "done" /\ definition.steps # <<>> /\ ~CriticalAbort

\* the edges of the definition: its connections, or step i -> step i+1 when
\* it has none
Edges ==
    IF definition.connections = <<>>
    THEN Range(LegacyConnections(definition.steps))
    ELSE Range(definition.connections)

PredsOf(step_id) == {c.from : c \in {e \in Edges : e.to = step_id}}

\* the definition has no cycle: no step reaches itself along connections
RECURSIVE ReachableFrom(_, _)
ReachableFrom(frontier, seen) ==
    LET next == {c.to : c \in {e \in Edges : e.from \in frontier}} \ seen
    IN  IF next = {} THEN seen ELSE ReachableFrom(next, seen \cup next)

Descendants(step_id) == ReachableFrom({step_id}, {})

Acyclic == \A s \in AllStepIds : s \notin Descendants(s)

ReferencesExist == \A c \in Edges : c.from \in AllStepIds /\ c.to \in AllStepIds

\* C1 (as claimed): on the diamond A -success-> B, A -error-> C, B -> D,
\* C -> D, when A succeeds with branch "success" and every dispatched step
\* succeeds, the finished run has dispatched {A}, {B}, {D} in this order,
\* completed = {A, B, D}, skipped = {C} and success = TRUE.
C1_DiamondTicks ==
    ( /\ definition = DiamondDefinition
      /\ pc = "done"
      /\ \A s \in Dispatched : Succeeded(s)
      /\ Succeeded("A") /\ steps_results["A"].output.branch = "success" )
    => ( /\ ticks = << <<"A">>, <<"B">>, <<"D">> >>
         /\ completed_steps = {"A", "B", "D"}
         /\ skipped_steps = {"C"}
         /\ success = TRUE )

\* C2 (as claimed): for an acyclic definition whose connections reference
\* existing steps, when the tick loop terminates without a critical abort
\* every step is in exactly one of completed and skipped.
C2_NoStepUnprocessed ==
    (LoopTerminated /\ Acyclic /\ ReferencesExist)
    => \A s \in AllStepIds :
          (s \in completed_steps) # (s \in skipped_steps)


\* the branch label in the recorded output of p, "default" without one
TakenBranch(p) ==
    IF Recorded(p) /\ steps_results[p].output.branch # None
    THEN steps_results[p].output.branch
    ELSE "default"

\* the labels of the conditional connections p -> s
CondLabels(p, s) ==
    {c.condition : c \in {e \in Edges : e.from = p /\ e.to = s /\ e.condition # None}}

Unconditional(p, s) == \E c \in Edges : c.from = p /\ c.to = s /\ c.condition = None

\* s is a conditional successor of p only through labels that are neither
\* the branch p took nor the wildcard, and is not an unconditional successor
ExcludedBy(p, s) ==
    /\ CondLabels(p, s) # {}
    /\ CondLabels(p, s) \cap {TakenBranch(p), "*"} = {}
    /\ ~Unconditional(p, s)

\* s is a conditional successor of p through the label p took
MatchedBy(p, s) == TakenBranch(p) \in CondLabels(p, s)

\* a ready-set computation has run since completed_steps last changed
ReadySetComputed == pc # "tick" /\ ~CriticalAbort

\* C3 (as claimed): a step excluded by the branch of a completed predecessor
\* p is never dispatched and is skipped once its predecessors are completed;
\* a step matched by the branch of p is dispatched and never skipped.
C3_BranchCorrectness ==
    \A p \in completed_steps, s \in AllStepIds :
        /\ ExcludedBy(p, s) =>
              /\ s \notin Dispatched
              /\ (ReadySetComputed /\ PredsOf(s) \subseteq completed_steps)
                    => s \in skipped_steps
        /\ MatchedBy(p, s) =>
              /\ s \notin skipped_steps
              /\ LoopTerminated => s \in Dispatched

\* C3 (amended): a step excluded by the branch of a completed predecessor p
\* is never dispatched and is skipped by the first ready-set computation made
\* after all its predecessors are completed; a step matched by the branch of
\* p is skipped only when another completed predecessor excludes it, and
\* otherwise is dispatched by the first ready-set computation made after all
\* its predecessors are completed.
C3_BranchCorrectnessAmended ==
    \A p \in completed_steps, s \in AllStepIds :
        /\ ExcludedBy(p, s) =>
              /\ s \notin Dispatched
              /\ (ReadySetComputed /\ PredsOf(s) \subseteq completed_steps)
                    => s \in skipped_steps
        /\ MatchedBy(p, s) =>
              /\ s \in skipped_steps =>
                    \E q \in (PredsOf(s) \cap completed_steps) \ {p} : ExcludedBy(q, s)
              /\ ( /\ ReadySetComputed
                   /\ PredsOf(s) \subseteq completed_steps
                   /\ \A q \in PredsOf(s) : ~ExcludedBy(q, s) )
                    => s \in Dispatched

\* C3 witness: in a finished run one step was skipped because of the branch
\* of its predecessor and another was dispatched on the branch taken.
C3_Witness ==
    /\ pc = "done"
    /\ \E p \in completed_steps, s \in AllStepIds :
          ExcludedBy(p, s) /\ s \in skipped_steps
    /\ \E p \in completed_steps, s \in Dispatched : MatchedBy(p, s)

\* The case the amendment of C3 is about: a step matched by the branch of one
\* predecessor was skipped because another predecessor excludes it.
C3_WitnessOtherPredecessor ==
    /\ pc = "done"
    /\ \E p \in completed_steps, q \in completed_steps, s \in skipped_steps :
          p # q /\ MatchedBy(p, s) /\ ExcludedBy(q, s)

\* the entry steps of the definition and what they reach without passing x
Entries == {s \in AllStepIds : PredsOf(s) = {}}

RECURSIVE ReachableAvoiding(_, _, _)
ReachableAvoiding(frontier, seen, x) ==
    LET next == {c.to : c \in {e \in Edges : e.from \in frontier}} \ (seen \cup {x})
    IN  IF next = {} THEN seen ELSE ReachableAvoiding(next, seen \cup next, x)

\* the steps reachable only through x
OnlyThrough(x) ==
    (Descendants(x) \ {x}) \ ReachableAvoiding(Entries \ {x}, Entries \ {x}, x)

\* C4: once a critical step x has a failed result, the run has returned
\* success = FALSE, x belongs to the last tick dispatched, nothing is
\* executing, and no step reachable only through x is completed, skipped or
\* dispatched.
C4_CriticalAbort ==
    \A x \in AllStepIds :
        (IsCritical(x) /\ Failed(x)) =>
            /\ pc = "done"
            /\ success = FALSE
            /\ running = {}
            /\ x \in Range(ticks[Len(ticks)])
            /\ \A s \in OnlyThrough(x) :
                  s \notin completed_steps \cup skipped_steps \cup Dispatched

\* C4 witness: a critical step failed after an earlier tick, and a step
\* reachable only through it was left unprocessed.
C4_Witness ==
    \E x \in AllStepIds :
        /\ IsCritical(x) /\ Failed(x)
        /\ Len(ticks) >= 2
        /\ OnlyThrough(x) # {}

\* C5 (as claimed): every step in completed has a recorded result with
\* success = TRUE.
C5_CompletedOnlyIfSuccess ==
    \A s \in completed_steps : Succeeded(s)

\* C5 (amended): a step is in completed exactly when its result has been
\* recorded, whether it succeeded or failed, and its output is stored for its
\* successors exactly when the result has success = TRUE.
C5_CompletedIffRecorded ==
    \A s \in AllStepIds :
        /\ (s \in completed_steps) <=> Recorded(s)
        /\ (s \in DOMAIN step_outputs) <=> Succeeded(s)

\* C5 witness: a step that failed is in completed and its successor was
\* dispatched after it.
C5_Witness ==
    \E s \in completed_steps, n \in Dispatched :
        Failed(s) /\ s \in PredsOf(n) /\ s \notin DOMAIN step_outputs


\* s1 and s2 share the single predecessor p and have no edge between them
Siblings(p, s1, s2) ==
    /\ s1 # s2
    /\ PredsOf(s1) = {p}
    /\ PredsOf(s2) = {p}
    /\ ~\E c \in Edges : {c.from, c.to} = {s1, s2}

\* C6: of two steps that share their single predecessor p and have no edge
\* between them, when one is dispatched and the other is not excluded by the
\* branch of p, both are dispatched in the same tick, the tick after that of
\* p, and the recorded result of each is tagged as executed in parallel with
\* a parallel group that contains both.
C6_ParallelBatch ==
    \A p \in AllStepIds, s1 \in Dispatched, s2 \in AllStepIds :
        (Siblings(p, s1, s2) /\ ~ExcludedBy(p, s2)) =>
            /\ s2 \in Dispatched
            /\ TickOf(s2) = TickOf(s1)
            /\ TickOf(s1) = TickOf(p) + 1
            /\ \A s \in {s1, s2} :
                  Recorded(s) =>
                      /\ steps_results[s].executed_in_parallel
                      /\ {s1, s2} \subseteq Range(steps_results[s].parallel_group)

\* C6 witness: two such steps were dispatched together and both results
\* are recorded.
C6_Witness ==
    \E p \in AllStepIds, s1 \in Dispatched, s2 \in Dispatched :
        /\ Siblings(p, s1, s2)
        /\ Recorded(s1) /\ Recorded(s2)
        /\ pc = "done"

\* C7: the ready set is computed only while no step is executing, and every
\* step that is executing belongs to the tick dispatched last.
C7_TicksSequential ==
    /\ pc # "running" => running = {}
    /\ running # {} => running \subseteq Range(ticks[Len(ticks)])

\* C7 witness: in a later tick two steps are executing at the same time.
C7_Witness ==
    /\ Len(ticks) >= 2
    /\ Cardinality(running) >= 2

\* the execution of the step ended in a handler exception or on an unknown
\* step type
HandlerFailure(r) ==
    \/ r.state = "returned" /\ ~r.success
          /\ r.output.error \in {"handler raised", "Unknown step type"}
    \/ r.state = "raised" /\ r.context = "handler raised"

\* the tick dispatched last has been processed
TickProcessed == ticks # <<>> /\ pc \in {"tick", "done", "raised"}

\* C8 (as claimed): when a step that is not critical ends in a handler
\* exception or on an unknown step type, and no critical step of its batch
\* failed, nothing propagates out of the run, every step of the batch has
\* its result recorded, the result of that step has success = FALSE with an
\* error message, and the loop goes on.
C8_FailureIsolation ==
    \A s \in Range(ready_steps) :
        ( /\ TickProcessed
          /\ ~IsCritical(s)
          /\ HandlerFailure(exec_results[s])
          /\ ~CriticalAbort )
        => /\ pc # "raised"
           /\ \A x \in Range(ready_steps) : Recorded(x)
           /\ Failed(s)
           /\ steps_results[s].output.error # None

\* C9: when the tick loop has terminated without abort, success is the AND
\* of the success of the recorded results of the steps outside skipped, and
\* it is FALSE exactly when a dispatched step failed.
C9_SuccessIsConjunction ==
    LoopTerminated =>
        /\ success = (\A s \in DOMAIN steps_results :
                          s \notin skipped_steps => steps_results[s].success)
        /\ (success = FALSE) <=> (\E s \in Dispatched : ~Succeeded(s))

\* C9 witness: a finished run in which one step failed, one succeeded and
\* one was skipped.
C9_Witness ==
    /\ LoopTerminated
    /\ success = FALSE
    /\ \E s \in Dispatched : Succeeded(s)
    /\ skipped_steps # {}


\* the executions a schedule created that started in a calendar minute
ExecutionsIn(schedule_id, minute) ==
    {i \in 1..Len(executions) :
        /\ executions[i].executed_by = <<"scheduler", schedule_id>>
        /\ CalendarMinute(executions[i].started_at) = minute}

\* C10 (as claimed): when two scans fall in the same calendar minute, the
\* every-minute schedule s1 has exactly one execution that started in that
\* minute.
C10_ScanIdempotent ==
    \A i \in 1..Len(scans), j \in 1..Len(scans) :
        (i < j /\ CalendarMinute(scans[i]) = CalendarMinute(scans[j]))
        => Cardinality(ExecutionsIn("s1", CalendarMinute(scans[i]))) = 1

\* The statement of C10 restricted to the minutes of the hour other than 59
\* (it holds there).
C10_ScanIdempotentBefore59 ==
    \A i \in 1..Len(scans), j \in 1..Len(scans) :
        ( /\ i < j
          /\ CalendarMinute(scans[i]) = CalendarMinute(scans[j])
          /\ MinuteOfHour(scans[i]) # 59 )
        => Cardinality(ExecutionsIn("s1", CalendarMinute(scans[i]))) = 1

\* the rows a scan step appended that were created for a schedule
CreatedFor(schedule) ==
    {i \in (Len(executions) + 1)..Len(executions') :
        executions'[i].executed_by = ExecutedBy(schedule)}

\* a step of the behaviour is a scan
IsScan == scans' # scans

\* the schedule cannot be processed at this time: its cron expression is
\* malformed, or its processing raises
Faulty(schedule) ==
    \/ ~ValidCron(schedule.cron_expression)
    \/ ProcessScheduleRaises(executions, schedule, now)

InWindow(schedule, prev_fire) ==
    {i \in 1..Len(executions) :
        /\ executions[i].workflow_id = schedule.workflow_id
        /\ executions[i].executed_by = ExecutedBy(schedule)
        /\ CalendarMinute(executions[i].started_at) = CalendarMinute(prev_fire)}

\* C12 (as claimed): in every scan an active schedule (with a well-formed
\* cron expression and time zone) creates one execution if and only if
\* 0 <= now - prev_fire <= scan_interval + 10 and no execution of the same
\* workflow and initiator started in the one-minute window of prev_fire; the
\* rows stored before the scan are unchanged.
C12_DueIff ==
    [][ IsScan =>
          /\ SubSeq(executions', 1, Len(executions)) = executions
          /\ \A k \in 1..Len(_get_active_schedules) :
                LET sch == _get_active_schedules[k]
                    prev_fire == get_prev(sch.cron_expression, now)
                IN  (ValidCron(sch.cron_expression) /\ ValidTimezone(sch.timezone))
                    => /\ Cardinality(CreatedFor(sch)) <= 1
                       /\ (CreatedFor(sch) # {})
                             <=> ( /\ 0 <= now - prev_fire
                                   /\ now - prev_fire <= scan_interval_seconds + 10
                                   /\ InWindow(sch, prev_fire) = {} ) ]_vars

\* The statement of C12 for fire times outside minute 59 of the hour (it
\* holds there).
C12_DueIffBefore59 ==
    [][ IsScan =>
          /\ SubSeq(executions', 1, Len(executions)) = executions
          /\ \A k \in 1..Len(_get_active_schedules) :
                LET sch == _get_active_schedules[k]
                    prev_fire == get_prev(sch.cron_expression, now)
                IN  ( /\ ValidCron(sch.cron_expression)
                      /\ ValidTimezone(sch.timezone)
                      /\ MinuteOfHour(prev_fire) # 59 )
                    => /\ Cardinality(CreatedFor(sch)) <= 1
                       /\ (CreatedFor(sch) # {})
                             <=> ( /\ 0 <= now - prev_fire
                                   /\ now - prev_fire <= scan_interval_seconds + 10
                                   /\ InWindow(sch, prev_fire) = {} ) ]_vars

\* a step of the behaviour in which worker w dispatches a tick
DispatchesTick(w) == workers'[w].ticks # workers[w].ticks

\* C13 (as claimed): once the stored status is completed, failed or
\* cancelled, no step of any engine run or cancel request changes it.
C13_TerminalImmutable ==
    [][ (status \in TerminalStatuses) => (status' = status) ]_vars

\* C14 (as claimed): a tick is dispatched only while the stored status is
\* running, and the status never goes from pending to completed or failed
\* in one write.
C14_RunningBeforeDispatch ==
    [][ /\ \A w \in DOMAIN workers : DispatchesTick(w) => status = "running"
        /\ (status = "pending") => (status' \notin {"completed", "failed"}) ]_vars

\* C15 (as claimed): a worker reads the Execution's status at the top of
\* every tick it dispatches, and dispatches nothing while the stored status is
\* cancelled.
C15_CancellationCheckpoint ==
    [][ \A w \in DOMAIN workers :
            DispatchesTick(w) =>
                /\ workers'[w].flag_checks > workers[w].flag_checks
                /\ status # "cancelled" ]_vars

\* C16 (as claimed): of the workers handed the same Execution, at most one
\* has dispatched a step and at most one has written the final status.
C16_SingleDriver ==
    /\ Cardinality({w \in DOMAIN workers : workers[w].ticks # <<>>}) <= 1
    /\ Cardinality({w \in DOMAIN workers : workers[w].pc = "finished"}) <= 1

\* C17 (as claimed): for a definition whose connections form a cycle (a
\* self-loop included) no step is ever dispatched, and the finished run has
\* success = FALSE.
C17_CycleRejected ==
    ~Acyclic =>
        /\ Dispatched = {}
        /\ pc = "done" => success = FALSE

\* a step left waiting on a predecessor that is not a step of the definition
WaitsOnMissing(s) ==
    /\ s \notin completed_steps \cup skipped_steps
    /\ PredsOf(s) \ AllStepIds # {}

\* C18 (as claimed): for a definition with a connection whose from or to is
\* not the id of a step, no step is ever dispatched, the finished run has
\* success = FALSE, and no step is left waiting on the missing predecessor
\* by a run that ended normally.
C18_DanglingRejected ==
    ~ReferencesExist =>
        /\ Dispatched = {}
        /\ pc = "done" => success = FALSE
        /\ LoopTerminated => \A s \in AllStepIds : ~WaitsOnMissing(s)

\* the step's config map contains critical = true
ConfigCritical(step_id) ==
    LET config == StepOf(definition.steps, step_id).config
    IN  "critical" \in DOMAIN config /\ config.critical

\* C19 (as claimed): once a step whose config map contains critical = true
\* has a failed result, the run has returned success = FALSE and the step
\* belongs to the last tick dispatched.
C19_ConfigCriticalAborts ==
    \A x \in AllStepIds :
        (ConfigCritical(x) /\ Failed(x)) =>
            /\ pc = "done"
            /\ success = FALSE
            /\ x \in Range(ticks[Len(ticks)])

\* the steps a worker has dispatched
DispatchedBy(w) == UNION {Range(workers[w].ticks[k]) : k \in 1..Len(workers[w].ticks)}

\* the step of the worker's last tick
LastDispatched(w) == workers[w].ticks[Len(workers[w].ticks)][1]

\* C20: every log entry whose broadcast failed is persisted; the run went on
\* past every log operation (the start entry, the entry of every dispatched
\* step and the final entry are there, and a run is left by an exception only
\* from inside the execution of a step, after its error entry was written);
\* and the status written at the end is completed exactly when no recorded
\* result failed, whether or not a broadcast failed.
C20_LogSinkIsolation ==
    /\ undelivered \subseteq execution_logs
    /\ \A w \in DOMAIN workers :
          /\ workers[w].pc # "idle"
                => <<"workflow_start", "Starting workflow execution">> \in execution_logs
          /\ \A s \in DispatchedBy(w) : <<s, "Executing step">> \in execution_logs
          /\ workers[w].pc = "raised"
                => /\ workers[w].ticks # <<>>
                   /\ LastDispatched(w) \notin DOMAIN workers[w].st.results
                   /\ <<LastDispatched(w), "Error executing step">> \in execution_logs
          /\ workers[w].pc = "finished"
                => /\ \E e \in execution_logs : e[1] = "workflow_complete"
                   /\ status = IF \A s \in DOMAIN workers[w].st.results :
                                     workers[w].st.results[s].success
                               THEN "completed" ELSE "failed"

\* C20 witness: a run has finished with status completed although the
\* broadcast of its start entry and of the entry of a step failed.
C20_Witness ==
    \E w \in DOMAIN workers :
        /\ workers[w].pc = "finished"
        /\ status = "completed"
        /\ <<"workflow_start", "Starting workflow execution">> \in undelivered
        /\ \E s \in DispatchedBy(w) : <<s, "Step completed">> \in undelivered

\* the environments in which every lifecycle broadcast goes through
WorkingBroadcasts ==
    {env \in StepEnvs : env.started_ok /\ env.completed_ok /\ env.error_ok}

\* C21 (as claimed): no exception leaves the run, and what every finished
\* execution of a step produced is what the step produces when all its
\* lifecycle broadcasts go through (the same success result, from a handler
\* invoked or not invoked as it is then).
C21_BroadcastFailureContained ==
    /\ pc # "raised"
    /\ \A s \in DOMAIN exec_results :
          exec_results[s].state # "pending" =>
              \E env \in WorkingBroadcasts :
                  exec_results[s] = _execute_step(dependency_graph[s].step, env)

\* a step of the behaviour in which worker w makes the final status write and
\* its commit fails (the stored status stays what it was)
FinalWriteFails(w) ==
    /\ workers[w].pc = "final"
    /\ workers'[w].pc # "final"
    /\ status' = status

\* C22: when the commit of the final status fails, the exception leaves the
\* run (it does not go on to its end), the stored status and error message
\* are what they were before the write, and the completion of the run is not
\* broadcast.
C22_StatusWriteFailurePropagates ==
    [][ \A w \in DOMAIN workers :
            FinalWriteFails(w) =>
                /\ workers'[w].pc = "raised"
                /\ error_message' = error_message
                /\ run_completion' = run_completion ]_vars

\* C22 witness: a run whose loop had ended was left by the exception of its
\* status write: the Execution is still pending and no completion was
\* broadcast.
C22_Witness ==
    \E w \in DOMAIN workers :
        /\ workers[w].pc = "raised"
        /\ workers[w].ticks # <<>>
        /\ DispatchedBy(w) \subseteq DOMAIN workers[w].st.results
        /\ status = "pending"
        /\ run_completion = <<>>

\* the critical steps with a failed result in a worker's run
CriticalFailures(w) ==
    {x \in DOMAIN workers[w].st.results :
        /\ dependency_graph[x].step.critical
        /\ ~workers[w].st.results[x].success}

\* C23 (as claimed): when a run in which a critical step x failed has made
\* its final status write, the stored status is failed and the stored error
\* message is the error of x, also when another step failed before x.
C23_FirstCriticalError ==
    \A w \in DOMAIN workers :
        workers[w].pc = "finished" =>
            \A x \in CriticalFailures(w) :
                /\ status = "failed"
                /\ error_message = workers[w].st.results[x].output.error

\* The statement of C23 for the runs in which no step failed before the
\* critical step (it holds there).
C23_FirstCriticalErrorAlone ==
    \A w \in DOMAIN workers :
        workers[w].pc = "finished" =>
            \A x \in CriticalFailures(w) :
                (\A s \in DOMAIN workers[w].st.results :
                     s # x => workers[w].st.results[s].success)
                => /\ status = "failed"
                   /\ error_message = workers[w].st.results[x].output.error

\* C24: while stop() waits, the stop event is set, the scheduler is marked
\* not running and the wait has lasted at most the timeout; once stop() has
\* returned, and until start() is called, every loop task has ended (by
\* itself or cancelled), self.task is cleared and no scan has started.
C24_StopSequence ==
    /\ stop_call.waiting =>
          /\ scheduler.stop_event
          /\ ~scheduler.is_running
          /\ now <= stop_call.deadline
    /\ scans_at_stop >= 0 =>
          /\ \A t \in DOMAIN loop_tasks : loop_tasks[t].state \in Terminated
          /\ scheduler.task = NoTask
          /\ Len(scans) = scans_at_stop

\* C24 witness: stop() has returned after its wait timed out during a scan:
\* the loop task was cancelled, and a scan had started before.
C24_Witness ==
    /\ scans_at_stop >= 1
    /\ \E t \in DOMAIN loop_tasks : loop_tasks[t].state = "cancelled"

\* the definition has steps and no connections
Legacy == definition.steps # <<>> /\ definition.connections = <<>>

\* C25: for a definition with steps and no connections, the graph built has
\* exactly the edges step i -> step i+1 of the list (none of them
\* conditional), and tick k dispatches step k of the list alone.
C25_LegacyOrdering ==
    Legacy =>
        /\ pc # "start" =>
              \A i \in 1..Len(definition.steps) :
                  LET node == dependency_graph[definition.steps[i].id]
                  IN  /\ node.predecessors =
                            IF i = 1 THEN <<>> ELSE <<definition.steps[i - 1].id>>
                      /\ node.successors =
                            IF i = Len(definition.steps) THEN <<>>
                            ELSE <<definition.steps[i + 1].id>>
                      /\ node.conditional_successors = <<>>
        /\ Len(ticks) <= Len(definition.steps)
        /\ \A k \in 1..Len(ticks) : ticks[k] = <<definition.steps[k].id>>

\* C25 witness: a finished run of a definition without connections has
\* dispatched all its steps, the last of them after a failed one.
C25_Witness ==
    /\ Legacy
    /\ pc = "done"
    /\ Len(ticks) = Len(definition.steps)
    /\ \E s \in Dispatched : Failed(s)

\* C26: after the tick loop has terminated on an empty ready set, the
\* ready-set computation on the state it left returns no step and skips no
\* step, so it leaves completed and skipped as they are, however often it is
\* repeated.
C26_IdempotentTermination ==
    LoopTerminated =>
        /\ Ready.next_steps = <<>>
        /\ Ready.skipped = {}

\* C26 witness: the loop has terminated after a computation that skipped a
\* step, with a step left that is neither completed nor skipped.
C26_Witness ==
    /\ LoopTerminated
    /\ skipped_steps # {}
    /\ completed_steps # {}
    /\ AllStepIds \ (completed_steps \cup skipped_steps) # {}

\* the most Execution rows a behaviour creates
MaxRows == MaxScans * Len(Schedules) + MaxTriggers

\* C27 (as claimed): every Execution row that has been created, by a scan or
\* by an on-demand trigger, eventually has status completed, failed or
\* cancelled.
C27_EventuallyTerminal ==
    \A i \in 1..MaxRows :
        (Len(executions) >= i)
            ~> (Len(executions) >= i /\ executions[i].status \in TerminalStatuses)

\* the predecessors the graph lists for a step
PredecessorsOf(s) == Range(dependency_graph[s].predecessors)

\* the ticks made before tick i
EarlierTicks(i) == UNION {Range(ticks[j]) : j \in 1..(i - 1)}

\* C28: every step of every tick has all its predecessors in completed, each
\* of them dispatched in an earlier tick, finished and recorded; so a step
\* with a predecessor that is not in completed has never been dispatched.
C28_DependencyOrder ==
    /\ \A i \in 1..Len(ticks) :
          \A s \in Range(ticks[i]) :
              \A p \in PredecessorsOf(s) :
                  /\ p \in completed_steps
                  /\ p \in EarlierTicks(i)
                  /\ p \notin running
                  /\ p \in DOMAIN steps_results
    /\ pc # "start" =>
          \A s \in AllStepIds :
              (\E p \in PredecessorsOf(s) : p \notin completed_steps)
                  => s \notin Dispatched

\* C28 witness: a finished run in which a step with predecessors was
\* dispatched after the first tick and another step was never dispatched nor
\* skipped because one of its predecessors is not in completed.
C28_Witness ==
    /\ pc = "done"
    /\ \E i \in 2..Len(ticks) :
          \E s \in Range(ticks[i]) : PredecessorsOf(s) # {}
    /\ \E s \in AllStepIds :
          /\ s \notin Dispatched
          /\ s \notin skipped_steps
          /\ \E p \in PredecessorsOf(s) : p \notin completed_steps

\* s is reached from p by a conditional and by an unconditional connection
BothWays(p, s) ==
    /\ s \in Range(dependency_graph[p].successors)
    /\ \E i \in 1..Len(dependency_graph[p].conditional_successors) :
          dependency_graph[p].conditional_successors[i].step_id = s

\* the branch q took keeps s out: the test that sets should_execute to False
Excludes(q, s) ==
    /\ q \in DOMAIN dependency_graph
    /\ dependency_graph[q].conditional_successors # <<>>
    /\ ~IsInBranch(dependency_graph, step_outputs, q, s)
    /\ s \notin Range(dependency_graph[q].successors)

\* the branch p took is not the label of any conditional connection p -> s
BranchMisses(p, s) == ~IsInBranch(dependency_graph, step_outputs, p, s)

\* C29 (as claimed): a step s reached from p both ways is dispatched once
\* all its predecessors are completed, so it is in a tick when the loop has
\* ended with its predecessors completed; and it is never skipped on account
\* of p (if it is skipped, the branch of another predecessor excludes it).
C29_UnconditionalOverride ==
    pc # "start" =>
        \A p \in AllStepIds, s \in AllStepIds :
            BothWays(p, s) =>
                /\ s \in skipped_steps =>
                      \E q \in PredecessorsOf(s) \ {p} : Excludes(q, s)
                /\ (LoopTerminated /\ PredecessorsOf(s) \subseteq completed_steps)
                      => s \in Dispatched

\* C29 (amended): a step s reached from p both ways is never skipped on
\* account of p: if it is skipped, the branch of another predecessor excludes
\* it; and when the loop has ended with its predecessors completed and no
\* other predecessor's branch excluding it, it has been dispatched.
C29_UnconditionalOverrideAmended ==
    pc # "start" =>
        \A p \in AllStepIds, s \in AllStepIds :
            BothWays(p, s) =>
                /\ s \in skipped_steps =>
                      \E q \in PredecessorsOf(s) \ {p} : Excludes(q, s)
                /\ (/\ LoopTerminated
                    /\ PredecessorsOf(s) \subseteq completed_steps
                    /\ \A q \in PredecessorsOf(s) \ {p} : ~Excludes(q, s))
                      => s \in Dispatched

\* C29 witness: a step reached both ways from p has been dispatched although
\* the branch p took is not the label of its conditional connection.
C29_Witness ==
    /\ pc = "done"
    /\ \E p \in AllStepIds, s \in AllStepIds :
          /\ BothWays(p, s)
          /\ p \in completed_steps
          /\ BranchMisses(p, s)
          /\ s \in Dispatched

\* C30 (as claimed): when the run has returned, every step of every tick has
\* its result in steps_results, the members of a parallel batch stopped by a
\* critical failure included.
C30_DispatchedRecorded ==
    pc = "done" => \A s \in Dispatched : Recorded(s)

\* what does hold: a dispatched step without a recorded result is a member
\* of the last batch that comes after the critical failure that stopped it
C30_UnrecordedOnlyAfterAbort ==
    pc = "done" =>
        \A s \in Dispatched :
            ~Recorded(s) =>
                /\ CriticalAbort
                /\ Len(ticks[Len(ticks)]) > 1
                /\ \E i, j \in 1..Len(ticks[Len(ticks)]) :
                      /\ i < j
                      /\ ticks[Len(ticks)][j] = s
                      /\ Failed(ticks[Len(ticks)][i])
                      /\ dependency_graph[ticks[Len(ticks)][i]].step.critical

\* the rows a scan created for this schedule and fire time
RowsFor(schedule, f) ==
    {i \in 1..Len(executions) :
        /\ executions[i].executed_by = ExecutedBy(schedule)
        /\ executions[i].scheduled_time = f}

\* the fire times rows were created for
FireTimes == {executions[i].scheduled_time : i \in 1..Len(executions)}

\* C31 (as claimed): for every schedule and fire time at most one Execution
\* with initiator scheduler:<schedule id> exists, whatever the spacing of
\* the scans.
C31_OnePerFire ==
    \A k \in 1..Len(Schedules), f \in FireTimes :
        Cardinality(RowsFor(Schedules[k], f)) <= 1

\* what does hold: a row whose start time lies in the calendar minute of its
\* fire time is not followed by a second row for that fire time
C31_OnePerFireInsideWindow ==
    \A k \in 1..Len(Schedules), f \in FireTimes :
        \A i \in RowsFor(Schedules[k], f) :
            CalendarMinute(executions[i].started_at) = CalendarMinute(f)
                => \A j \in RowsFor(Schedules[k], f) : j <= i

\* the schedule is due for a fire time at this minute of the hour and no
\* execution of it started in the window of that fire time
DueAtMinute(sch, m) ==
    LET prev_fire == get_prev(sch.cron_expression, now)
    IN  /\ MinuteOfHour(prev_fire) = m
        /\ IsDue(now - prev_fire)
        /\ InWindow(sch, prev_fire) = {}

\* schedules whose time zone and cron expression are accepted
WellFormed(sch) == ValidTimezone(sch.timezone) /\ ValidCron(sch.cron_expression)

\* C32 (as claimed): in every scan, a well-formed active schedule that is due
\* for a fire time at any minute of the hour, 59 included, and has no
\* execution in that window gets an execution created by that scan.
C32_EveryMinuteOfHour ==
    [][ IsScan =>
          \A k \in 1..Len(_get_active_schedules), m \in 0..59 :
              LET sch == _get_active_schedules[k]
              IN  (WellFormed(sch) /\ DueAtMinute(sch, m))
                      => CreatedFor(sch) # {} ]_vars

\* what does hold: the same for the minutes 0 to 58
C32_MinutesBefore59 ==
    [][ IsScan =>
          \A k \in 1..Len(_get_active_schedules), m \in 0..58 :
              LET sch == _get_active_schedules[k]
              IN  (WellFormed(sch) /\ DueAtMinute(sch, m))
                      => CreatedFor(sch) # {} ]_vars

\* consecutive scans are at most scan_interval + 10 seconds apart
ScansCloseEnough ==
    \A i \in 1..(Len(scans) - 1) :
        scans[i + 1] - scans[i] <= scan_interval_seconds + DueBuffer

\* no later scan can find the schedule due for the fire time f: a scan has
\* been made after a later fire time, or more than scan_interval + 10
\* seconds after f
FirePassed(sch, f) ==
    \E i \in 1..Len(scans) :
        /\ scans[i] > f
        /\ \/ get_prev(sch.cron_expression, scans[i]) > f
           \/ ~IsDue(scans[i] - f)

\* the fire times of a schedule between the first and the last scan
FiresDuringScans(sch) ==
    IF scans = <<>> THEN {}
    ELSE {f \in scans[1]..scans[Len(scans)] : CronFires(sch.cron_expression, f)}

\* C33 (as claimed): when consecutive scans are at most scan_interval + 10
\* seconds apart, every fire time of a well-formed active schedule that the
\* scans have passed has an execution created for it.
C33_NoFireMissed ==
    ScansCloseEnough =>
        \A k \in 1..Len(_get_active_schedules) :
            LET sch == _get_active_schedules[k]
            IN  WellFormed(sch) =>
                    \A f \in FiresDuringScans(sch) :
                        FirePassed(sch, f) => RowsFor(sch, f) # {}

\* C34: no step id is in two ticks or twice in one tick, so each step is
\* dispatched at most once; and no step id is in both completed and skipped.
C34_DispatchedOnceDisjoint ==
    /\ \A i \in 1..Len(ticks) :
          /\ Cardinality(Range(ticks[i])) = Len(ticks[i])
          /\ \A j \in 1..Len(ticks) :
                i # j => Range(ticks[i]) \cap Range(ticks[j]) = {}
    /\ completed_steps \cap skipped_steps = {}

\* C34 witness: a run of two ticks has ended with a failed step in completed
\* and another step skipped.
C34_Witness ==
    /\ pc = "done"
    /\ Len(ticks) >= 2
    /\ skipped_steps # {}
    /\ \E s \in completed_steps : Failed(s)

\* the run has left the tick loop: execute_workflow returned or raised
RunEnded == pc \in {"done", "raised"}

\* C35: for every definition, cyclic and dangling ones included, a run makes
\* at most as many ticks as the definition has steps, and when every started
\* step finishes the run leaves the tick loop.
C35_LoopTerminates ==
    /\ [](Len(ticks) <= Len(definition.steps))
    /\ <>RunEnded

\* the bound on the ticks alone, for every definition of Spec
C35_TickBound == Len(ticks) <= Len(definition.steps)

\* C35 witness: the run of a definition with a connection that leads back
\* has ended after at least one tick and fewer ticks than it has steps.
C35_Witness ==
    /\ RunEnded
    /\ definition.steps # <<>>
    /\ ~Acyclic
    /\ ticks # <<>>
    /\ Len(ticks) < Len(definition.steps)

\* the steps the run left in neither completed nor skipped
Unprocessed == AllStepIds \ (completed_steps \cup skipped_steps)

\* C36 (as claimed): a run that has returned success = true has left no step
\* unprocessed.
C36_SuccessMeansAllProcessed ==
    (pc = "done" /\ success = TRUE) => Unprocessed = {}

\* what does hold: a run that has returned success = true has no failed
\* step outside skipped
C36_SuccessMeansNoFailure ==
    (pc = "done" /\ success = TRUE) =>
        \A s \in AllStepIds \ skipped_steps : ~Failed(s)

\* the run of worker w has returned a result to its caller
RunReturned(w) == workers[w].pc \in {"finished", "returned"}

\* the status that agrees with the success flag a run returned
StatusFor(flag) == IF flag THEN "completed" ELSE "failed"

\* C37 (as claimed): whenever a run has returned a result, also for a
\* missing workflow or a definition without steps, the stored status is
\* completed or failed in agreement with the success flag returned.
C37_ReturnSetsStatus ==
    \A w \in DOMAIN workers :
        RunReturned(w) => status = StatusFor(workers[w].success)

\* what does hold: a run that reached the end of execute_workflow has stored
\* the status that agrees with its success flag
C37_FinishedSetsStatus ==
    \A w \in DOMAIN workers :
        workers[w].pc = "finished" => status = StatusFor(workers[w].success)

\* the loop tasks that have not ended
AliveLoops == {t \in DOMAIN loop_tasks : loop_tasks[t].state \notin Terminated}

\* C38 (as claimed): under any interleaving of start() and stop(), at most
\* one loop task is alive at any time, and a loop task is created only by a
\* start() on a scheduler that is not running.
C38_OneLoopAlive ==
    /\ [](Cardinality(AliveLoops) <= 1)
    /\ [][Len(loop_tasks') > Len(loop_tasks) => ~scheduler.is_running]_vars

\* what does hold: a start() on a running scheduler creates no loop task
C38_StartWhileRunning ==
    [][Len(loop_tasks') > Len(loop_tasks) => ~scheduler.is_running]_vars

\* with the calls made one after the other, at most one loop task is alive
C38_OneLoopAliveSequential == Cardinality(AliveLoops) <= 1

\* the rows the scans created
ScheduledRows ==
    {i \in 1..Len(executions) : executions[i].executed_by[1] = "scheduler"}

C39_EmptyDefaultsUnchanged ==
    /\ \A k \in 1..Len(loaded_schedules) :
          _get_active_schedules[k].execution_inputs = EmptyMap
              => loaded_schedules[k] = _get_active_schedules[k]
    /\ \A i \in ScheduledRows :
          /\ "_schedule" \in DOMAIN executions[i].execution_inputs
          /\ executions[i].execution_inputs["_schedule"].scheduled_time
                 = executions[i].scheduled_time

(***************************************************************************)
(* The WebSocketManager: the viewers of one run and the broadcast of the   *)
(* run's completion.  connect and disconnect are called by the websocket   *)
(* endpoint of each viewer; broadcast_run_completion is called once by     *)
(* execute_workflow and gives up control at every send and close.          *)
(***************************************************************************)

\* the orders in which list(a_set) can enumerate the set
Orders(S) == {q \in [1..Cardinality(S) -> S] : Range(q) = S}

\* the viewers whose connection has dropped
Gone == {v \in Viewers : client[v] = "gone"}

\* WebSocketManager.connect: the websocket is accepted and added, under the
\* lock, to the run's set (created when run_id is not a key)
connect(v) ==
    /\ client[v] = "none"
    /\ client' = [client EXCEPT ![v] = "open"]
    /\ active_connections' = active_connections \cup {v}
    /\ UNCHANGED <<completion, sent, closed, removed>>
    /\ UNCHANGED <<status, workers, execution_logs, undelivered,
                   cancel_response, error_message, run_completion>>
    /\ UNCHANGED engineVars
    /\ UNCHANGED schedVars
    /\ UNCHANGED lifeVars

\* the viewer's connection drops; its endpoint has not yet noticed
ClientLeaves(v) ==
    /\ client[v] = "open"
    /\ v \notin closed
    /\ client' = [client EXCEPT ![v] = "gone"]
    /\ UNCHANGED <<active_connections, completion, sent, closed, removed>>
    /\ UNCHANGED <<status, workers, execution_logs, undelivered,
                   cancel_response, error_message, run_completion>>
    /\ UNCHANGED engineVars
    /\ UNCHANGED schedVars
    /\ UNCHANGED lifeVars

\* WebSocketManager.disconnect, called by the viewer's endpoint when its
\* receive ends (the connection dropped or was closed): the websocket is
\* discarded from the run's set and an empty set is deleted
disconnect(v) ==
    /\ v \in active_connections
    /\ client[v] = "gone" \/ v \in closed
    /\ active_connections' = active_connections \ {v}
    /\ UNCHANGED <<client, completion, sent, closed, removed>>
    /\ UNCHANGED <<status, workers, execution_logs, undelivered,
                   cancel_response, error_message, run_completion>>
    /\ UNCHANGED engineVars
    /\ UNCHANGED schedVars
    /\ UNCHANGED lifeVars

\* broadcast_run_completion up to its first await: it returns when run_id
\* is not registered, otherwise it copies the run's set into a list
broadcast_run_completion ==
    /\ completion.pc = "idle"
    /\ IF active_connections = {}
       THEN completion' = [completion EXCEPT !.pc = "returned"]
       ELSE \E q \in Orders(active_connections) :
               completion' = [pc |-> "sending", connections |-> q, i |-> 1]
    /\ UNCHANGED <<active_connections, client, sent, closed, removed>>
    /\ UNCHANGED <<status, workers, execution_logs, undelivered,
                   cancel_response, error_message, run_completion>>
    /\ UNCHANGED engineVars
    /\ UNCHANGED schedVars
    /\ UNCHANGED lifeVars

\* one turn of the loop over the copied list: send_json and close(1000);
\* on a dropped connection send_json raises, which is logged, and the
\* websocket is not closed
SendCompletion ==
    /\ completion.pc = "sending"
    /\ completion.i <= Len(completion.connections)
    /\ LET websocket == completion.connections[completion.i]
       IN  IF client[websocket] = "open"
           THEN /\ sent' = sent \cup {websocket}
                /\ closed' = closed \cup {websocket}
           ELSE UNCHANGED <<sent, closed>>
    /\ completion' = [completion EXCEPT !.i = @ + 1]
    /\ UNCHANGED <<active_connections, client, removed>>
    /\ UNCHANGED <<status, workers, execution_logs, undelivered,
                   cancel_response, error_message, run_completion>>
    /\ UNCHANGED engineVars
    /\ UNCHANGED schedVars
    /\ UNCHANGED lifeVars

\* after the loop, under the lock: del active_connections[run_id], whatever
\* the set holds by now
RemoveEntry ==
    /\ completion.pc = "sending"
    /\ completion.i > Len(completion.connections)
    /\ removed' = active_connections
    /\ active_connections' = {}
    /\ completion' = [completion EXCEPT !.pc = "returned"]
    /\ UNCHANGED <<client, sent, closed>>
    /\ UNCHANGED <<status, workers, execution_logs, undelivered,
                   cancel_response, error_message, run_completion>>
    /\ UNCHANGED engineVars
    /\ UNCHANGED schedVars
    /\ UNCHANGED lifeVars

ViewerInit == EngineIdle /\ SchedIdle /\ RunsIdle /\ LifeIdle

ViewerNext ==
    \/ \E v \in Viewers : connect(v)
    \/ \E v \in Viewers : ClientLeaves(v)
    \/ \E v \in Viewers : disconnect(v)
    \/ broadcast_run_completion
    \/ SendCompletion
    \/ RemoveEntry

ViewerSpec == ViewerInit /\ [][ViewerNext]_vars

\* C40: every viewer that is in the run's entry when broadcast_run_completion
\* deletes the entry, and whose connection has not dropped, has been sent
\* the run_completed message and been closed (so a viewer that connected
\* during the broadcast is not dropped unserved), and when the call returns
\* no viewer is registered for the run.
C40_CompletionReachesAll ==
    /\ [](removed \ Gone \subseteq sent \cap closed)
    /\ [][completion.pc # "returned" /\ completion'.pc = "returned"
              => active_connections' = {}]_vars

\* C40, the part that holds: the viewers that were in the copied list and
\* whose connection has not dropped were sent the message and closed
\* before the entry was deleted.
C40_CopiedViewersServed ==
    (removed \cap Range(completion.connections)) \ Gone
        \subseteq sent \cap closed

\* C40, the part that holds: at the return of the call the run has no entry.
C40_NoneRegisteredAtReturn ==
    [][completion.pc # "returned" /\ completion'.pc = "returned"
          => active_connections' = {}]_vars

\* C40: a viewer connected after the list was copied and the entry was then
\* deleted with that viewer in it.
C40_LateViewerDropped ==
    \E v \in removed :
        v \notin Range(completion.connections) /\ client[v] = "open"


====
